---- MODULE Spec2Model ----
(***************************************************************************)
(* A model of coc, the command-output curator (Fuabioo/cmd-output-curator). *)
(*                                                                         *)
(* Part I models executor.Run: the supervisor goroutine, the child         *)
(* process, the stdout pump (io.Copy into stdoutBuf through a TeeReader),   *)
(* the stderr pump (io.Copy into a MultiWriter of os.Stderr and the log)    *)
(* and the syncWriter mutex that serializes the two pumps on the log file.  *)
(*                                                                         *)
(* Output is modelled in blocks.  A block is a run of bytes that travels    *)
(* through a pipe together; it carries the stream it belongs to, its        *)
(* position in that stream and its length in bytes.  A read from a pipe     *)
(* returns one or more whole blocks, a write call writes the blocks of the  *)
(* chunk that was read one after the other.                                 *)
(***************************************************************************)
EXTENDS Integers, Sequences, FiniteSets, TLC

\* ------------------------------------------------------------------------
\* Bounds
\* ------------------------------------------------------------------------

\* Largest number of blocks the child writes to one stream: more than a
\* pipe holds, so that the child can fill a pipe and still have output.
MaxBlocks == 3

\* The number of signals that reach the supervisor in one run
MaxSignals == 2

\* The number of blocks per stream the child writes in the runs with signals
MaxSigBlocks == 1

\* The number of strategies registered in a registry
MaxStrategies == 5

\* The number of arguments of a command line
MaxArgs == 4

\* The number of characters of a text given to StripANSI
MaxAnsiLen == 4

\* The number of characters of a command and of an argument in the calls
\* of Slug and Resolve
MaxWordLen == 2
MaxArgLen == 2

\* The most lines of a text given to Filter
MaxLines == 10

\* The number of lines of the texts that mix all the lines of a command
MaxScript == 4

\* The most tokens of a command given to the hook
MaxCommandTokens == 3

\* The most matcher entries of PreToolUse, the most hooks of an entry and
\* the most operations on one settings object
MaxEntries == 2
MaxHooks == 2
MaxOps == 3

\* ------------------------------------------------------------------------
\* Program constants
\* ------------------------------------------------------------------------

smallOutputThreshold == 4096

\* Byte length of a long stdout block.  With one more byte the output is
\* the largest the small-output cleanup removes, with two the smallest kept.
LongBlock == smallOutputThreshold - 1

\* Capacities of a child pipe, in blocks: with 1 every read returns one
\* block, with 2 a read may return two blocks at once.
PipeCaps == {1, 2}

\* Exit statuses and terminating signals the child may end with
\* (SIGINT = 2, SIGTERM = 15).
ExitStatuses == {0, 1}
Signals == {2, 15}

\* The path logpath.Resolve returns; never the empty string.
ResolvedPath == "base/slug/session.log"

\* What Registry.Find may return: the pass-through fallback, or a strategy
\* such as git-status that reduces some outputs and not others.
StrategyNames == {"passthrough", "git-status"}

\* if len(slug) > 64 { slug = slug[:64] }
slugMaxLen == 64

\* signal.Notify(sigCh, syscall.SIGINT, syscall.SIGTERM, syscall.SIGQUIT)
ForwardedSignals == {2, 3, 15}

\* make(chan os.Signal, 1)
SigChCap == 1

\* ------------------------------------------------------------------------
\* Helpers
\* ------------------------------------------------------------------------

Range(s) == {s[i] : i \in DOMAIN s}

RECURSIVE ByteLen(_)
\* bytes.Buffer.Len of a buffer holding the blocks of s
ByteLen(s) == IF s = <<>> THEN 0 ELSE Head(s).n + ByteLen(Tail(s))

\* The blocks of stream st in s, in order
OfStream(s, st) == SelectSeq(s, LAMBDA b : b.s = st)

IsPrefix(p, s) == Len(p) <= Len(s) /\ SubSeq(s, 1, Len(p)) = p

\* All stdout outputs of a child: up to MaxBlocks blocks, at most one of
\* them (block big, 0 for none) long and the others one byte
OutPlans ==
    UNION {{[i \in 1..k |-> [s |-> "out", i |-> i,
                             n |-> IF i = big THEN LongBlock ELSE 1]] :
              big \in 0..k} : k \in 0..MaxBlocks}

\* All stderr outputs of a child: up to MaxBlocks one-byte blocks
ErrPlans ==
    {[i \in 1..k |-> [s |-> "err", i |-> i, n |-> 1]] : k \in 0..MaxBlocks}

VARIABLES
    cfg,            \* Config: NoFilter and NoLog
    pipeCap,        \* the capacity of each child pipe, in blocks
    pc,             \* position of the supervisor goroutine in Run
    strategy,       \* the strategy Run uses
    logFile,        \* the *os.File variable: "nil" or "file"
    logFilePath,    \* the logFilePath variable
    handle,         \* the log file descriptor: "none", "open" or "closed"
    closes,         \* number of Close calls on the log file descriptor
    onDisk,         \* TRUE iff the log file of this invocation exists
    logContent,     \* the blocks in the log file, in file order
    mu,             \* syncWriter.mu: "free", or the pump that holds it
    childState,     \* "unstarted", "running", "exited", "signaled", "reaped"
    outAll, errAll, \* what the child writes to stdout / stderr if it lives
    outIdx, errIdx, \* how many blocks of each the child has written
    outPipe, errPipe, \* blocks in the pipes, oldest first
    outPump, errPump, \* position of each pump goroutine
    outChunk, errChunk, \* blocks of the current read not yet written to the log
    stdoutBuf,      \* the accumulator
    stdoutCopyErr, stderrCopyErr, \* TRUE iff io.Copy returned an error
    exitCode,       \* the exitCode variable
    result,         \* the filter.Result
    termOut,        \* Fprint calls on os.Stdout, in order
    termErr,        \* what was written to os.Stderr, in order
    dirOnDisk,      \* TRUE iff the parent directory of the log exists
    childEnd,       \* how the child ended, as cmd.Start or cmd.Wait reported it
    removeErr,      \* os.Remove(logFilePath): "none" (not called), "nil", "error"
    ret,            \* the Result Run returned, meaningful once pc = "returned"
    handler,        \* disposition of SIGINT, SIGTERM, SIGQUIT in the supervisor
    sigCh,          \* the signals buffered in sigCh, oldest first
    fwdSig,         \* the signal the forwarding goroutine holds, 0 if none
    delivered,      \* the cmd.Process.Signal calls made, in order
    arrived,        \* the signals that reached the installed handler while
                    \* the child was running, in order
    call            \* a call of one of the pure functions of Part II

vars == <<cfg, pipeCap, pc, strategy, logFile, logFilePath, handle, closes, onDisk,
          logContent, mu, childState, outAll, errAll, outIdx, errIdx,
          outPipe, errPipe, outPump, errPump, outChunk, errChunk, stdoutBuf,
          stdoutCopyErr, stderrCopyErr, exitCode, result, termOut, termErr,
          dirOnDisk, childEnd, removeErr, ret, handler, sigCh, fwdSig,
          delivered, arrived, call>>

NoResult == [Filtered |-> <<>>, WasReduced |-> FALSE]

\* No pure function is being called
NoCall == [fn |-> "none", in |-> <<>>, out |-> <<>>, done |-> FALSE]

\* The variables of Run, all but call
runVars == <<cfg, pipeCap, pc, strategy, logFile, logFilePath, handle, closes,
             onDisk, logContent, mu, childState, outAll, errAll, outIdx,
             errIdx, outPipe, errPipe, outPump, errPump, outChunk, errChunk,
             stdoutBuf, stdoutCopyErr, stderrCopyErr, exitCode, result,
             termOut, termErr, dirOnDisk, childEnd, removeErr, ret, handler,
             sigCh, fwdSig, delivered, arrived>>

\* The state of Run when it is called
RunInit ==
    /\ cfg \in [NoFilter : BOOLEAN, NoLog : BOOLEAN]
    /\ pipeCap \in PipeCaps
    /\ outAll \in OutPlans
    /\ errAll \in ErrPlans
    /\ pc = "strategy"
    /\ strategy = "none"
    /\ logFile = "nil"
    /\ logFilePath = ""
    /\ handle = "none"
    /\ closes = 0
    /\ onDisk = FALSE
    /\ logContent = <<>>
    /\ mu = "free"
    /\ childState = "unstarted"
    /\ outIdx = 0 /\ errIdx = 0
    /\ outPipe = <<>> /\ errPipe = <<>>
    /\ outPump = "idle" /\ errPump = "idle"
    /\ outChunk = <<>> /\ errChunk = <<>>
    /\ stdoutBuf = <<>>
    /\ stdoutCopyErr = FALSE /\ stderrCopyErr = FALSE
    /\ exitCode = 0
    /\ result = NoResult
    /\ termOut = <<>>
    /\ termErr = <<>>
    /\ dirOnDisk = FALSE
    /\ childEnd = [kind |-> "none", v |-> 0]
    /\ removeErr = "none"
    /\ ret = [ExitCode |-> 0, LogPath |-> ""]
    /\ handler = "default"
    /\ sigCh = <<>>
    /\ fwdSig = 0
    /\ delivered = <<>>
    /\ arrived = <<>>

Init ==
    /\ RunInit
    /\ call = NoCall

\* ------------------------------------------------------------------------
\* The supervisor goroutine, up to the start of the pumps
\* ------------------------------------------------------------------------

\* A line coc itself writes to os.Stderr
Msg(m) == [s |-> m, i |-> 0, n |-> 0]

\* logWriter != nil: the log file was created at the start of Run
HasLogWriter == handle # "none"

\* CloseIfOpen when the small-output cleanup does not set logFile to nil:
\* the handle is closed whenever it was ever opened
CloseIfOpen_Unguarded ==
    IF handle # "none"
    THEN handle' = "closed" /\ closes' = closes + 1
    ELSE UNCHANGED <<handle, closes>>

\* if logFile != nil { logFile.Close() }
CloseIfOpen ==
    IF logFile # "nil"
    THEN handle' = "closed" /\ closes' = closes + 1
    ELSE UNCHANGED <<handle, closes>>

\* The deferred signal.Stop(sigCh) and close(sigCh), run at every return
\* that follows the defer statement
StopSignals == handler' = "stopped"

\* return Result{ExitCode: code, LogPath: path}
Return(code, path) ==
    /\ pc' = "returned"
    /\ ret' = [ExitCode |-> code, LogPath |-> path]

\* The strategy Run uses when cfg.Registry.Find returns found, with only
\* NoLog forcing pass-through
Chosen_NoFilterIgnored(found) == IF cfg.NoLog THEN "passthrough" ELSE found

\* The strategy Run uses when cfg.Registry.Find returns found: pass-through
\* under NoFilter or NoLog
Chosen(found) == IF cfg.NoFilter \/ cfg.NoLog THEN "passthrough" ELSE found

\* Resolve filter strategy
ResolveStrategy ==
    /\ pc = "strategy"
    /\ \E found \in StrategyNames : strategy' = Chosen(found)
    /\ pc' = "createLog"
    /\ UNCHANGED <<cfg, pipeCap, logFile, logFilePath, handle, closes, onDisk,
                   logContent, mu, childState, outAll, errAll, outIdx, errIdx,
                   outPipe, errPipe, outPump, errPump, outChunk, errChunk,
                   stdoutBuf, stdoutCopyErr, stderrCopyErr, exitCode, result,
                   termOut, termErr, dirOnDisk, childEnd, removeErr, ret,
                   handler, sigCh, fwdSig, delivered, arrived, call>>

\* Set up log file: logpath.Resolve, then logpath.CreateLogFile, which may
\* fail in MkdirAll or in Create
SetUpLog ==
    /\ pc = "createLog"
    /\ pc' = "pipes"
    /\ IF cfg.NoLog
       THEN UNCHANGED <<logFile, logFilePath, handle, onDisk, dirOnDisk, termErr>>
       ELSE /\ logFilePath' = ResolvedPath
            /\ \E outcome \in {"ok", "mkdirFailed", "createFailed"} :
                 /\ dirOnDisk' = (outcome # "mkdirFailed")
                 /\ onDisk' = (outcome = "ok")
                 /\ IF outcome = "ok"
                    THEN /\ logFile' = "file"
                         /\ handle' = "open"
                         /\ UNCHANGED termErr
                    ELSE /\ termErr' = Append(termErr, Msg("warning: could not create log file"))
                         /\ UNCHANGED <<logFile, handle>>
    /\ UNCHANGED <<cfg, pipeCap, strategy, closes, logContent, mu, childState,
                   outAll, errAll, outIdx, errIdx, outPipe, errPipe, outPump,
                   errPump, outChunk, errChunk, stdoutBuf, stdoutCopyErr,
                   stderrCopyErr, exitCode, result, termOut, childEnd,
                   removeErr, ret, handler, sigCh, fwdSig, delivered, arrived,
                   call>>

\* cmd.StdoutPipe and cmd.StderrPipe; either may fail
CreatePipes ==
    /\ pc = "pipes"
    /\ \E outcome \in {"ok", "stdoutPipeFailed", "stderrPipeFailed"} :
         IF outcome = "ok"
         THEN /\ pc' = "start"
              /\ UNCHANGED <<handle, closes, ret, termErr, childEnd>>
         ELSE /\ termErr' = Append(termErr, Msg("error creating pipe"))
              /\ childEnd' = [kind |-> outcome, v |-> 0]
              /\ CloseIfOpen
              /\ Return(1, "")
    /\ UNCHANGED <<cfg, pipeCap, strategy, logFile, logFilePath, onDisk,
                   logContent, mu, childState, outAll, errAll, outIdx, errIdx,
                   outPipe, errPipe, outPump, errPump, outChunk, errChunk,
                   stdoutBuf, stdoutCopyErr, stderrCopyErr, exitCode, result,
                   termOut, dirOnDisk, removeErr, handler, sigCh, fwdSig,
                   delivered, arrived, call>>

\* The exit code Run returns when cmd.Start fails
StartFailureCode(notFound) == IF notFound THEN 127 ELSE 1

\* Start the command
StartCommand ==
    /\ pc = "start"
    /\ \E outcome \in {"ok", "notFound", "otherError"} :
         IF outcome = "ok"
         THEN /\ childState' = "running"
              /\ pc' = "spawn"
              /\ UNCHANGED <<handle, closes, ret, termErr, childEnd>>
         ELSE /\ termErr' = Append(termErr, Msg("error starting command"))
              /\ CloseIfOpen
              /\ childEnd' = [kind |-> outcome, v |-> 0]
              /\ Return(StartFailureCode(outcome = "notFound"), "")
              /\ UNCHANGED childState
    /\ UNCHANGED <<cfg, pipeCap, strategy, logFile, logFilePath, onDisk,
                   logContent, mu, outAll, errAll, outIdx, errIdx, outPipe,
                   errPipe, outPump, errPump, outChunk, errChunk, stdoutBuf,
                   stdoutCopyErr, stderrCopyErr, exitCode, result, termOut,
                   dirOnDisk, removeErr, handler, sigCh, fwdSig, delivered,
                   arrived, call>>

\* signal.Notify and the forwarding goroutine, then wg.Add(2) and the two
\* go statements of the pumps
SpawnPumps ==
    /\ pc = "spawn"
    /\ pc' = "wgWait"
    /\ handler' = "installed"
    /\ outPump' = "read"
    /\ errPump' = "read"
    /\ UNCHANGED <<cfg, pipeCap, strategy, logFile, logFilePath, handle,
                   closes, onDisk, logContent, mu, childState, outAll, errAll,
                   outIdx, errIdx, outPipe, errPipe, outChunk, errChunk,
                   stdoutBuf, stdoutCopyErr, stderrCopyErr, exitCode, result,
                   termOut, termErr, dirOnDisk, childEnd, removeErr, ret,
                   sigCh, fwdSig, delivered, arrived, call>>

\* ------------------------------------------------------------------------
\* The child process
\* ------------------------------------------------------------------------

\* write(1, ...): blocks while the stdout pipe is full
ChildWriteOut ==
    /\ childState = "running"
    /\ outIdx < Len(outAll)
    /\ Len(outPipe) < pipeCap
    /\ outPipe' = Append(outPipe, outAll[outIdx + 1])
    /\ outIdx' = outIdx + 1
    /\ UNCHANGED <<cfg, pipeCap, pc, strategy, logFile, logFilePath, handle,
                   closes, onDisk, logContent, mu, childState, outAll, errAll,
                   errIdx, errPipe, outPump, errPump, outChunk, errChunk,
                   stdoutBuf, stdoutCopyErr, stderrCopyErr, exitCode, result,
                   termOut, termErr, dirOnDisk, childEnd, removeErr, ret,
                   handler, sigCh, fwdSig, delivered, arrived, call>>

\* write(2, ...): blocks while the stderr pipe is full
ChildWriteErr ==
    /\ childState = "running"
    /\ errIdx < Len(errAll)
    /\ Len(errPipe) < pipeCap
    /\ errPipe' = Append(errPipe, errAll[errIdx + 1])
    /\ errIdx' = errIdx + 1
    /\ UNCHANGED <<cfg, pipeCap, pc, strategy, logFile, logFilePath, handle,
                   closes, onDisk, logContent, mu, childState, outAll, errAll,
                   outIdx, outPipe, outPump, errPump, outChunk, errChunk,
                   stdoutBuf, stdoutCopyErr, stderrCopyErr, exitCode, result,
                   termOut, termErr, dirOnDisk, childEnd, removeErr, ret,
                   handler, sigCh, fwdSig, delivered, arrived, call>>

\* The child has written all its output and exits; its pipe ends close
ChildExit ==
    /\ childState = "running"
    /\ outIdx = Len(outAll)
    /\ errIdx = Len(errAll)
    /\ childState' = "exited"
    /\ UNCHANGED <<cfg, pipeCap, pc, strategy, logFile, logFilePath, handle,
                   closes, onDisk, logContent, mu, outAll, errAll, outIdx,
                   errIdx, outPipe, errPipe, outPump, errPump, outChunk,
                   errChunk, stdoutBuf, stdoutCopyErr, stderrCopyErr, exitCode,
                   result, termOut, termErr, dirOnDisk, childEnd, removeErr,
                   ret, handler, sigCh, fwdSig, delivered, arrived, call>>

\* A signal terminates the child at any moment; its pipe ends close
ChildKilled ==
    /\ childState = "running"
    /\ childState' = "signaled"
    /\ UNCHANGED <<cfg, pipeCap, pc, strategy, logFile, logFilePath, handle,
                   closes, onDisk, logContent, mu, outAll, errAll, outIdx,
                   errIdx, outPipe, errPipe, outPump, errPump, outChunk,
                   errChunk, stdoutBuf, stdoutCopyErr, stderrCopyErr, exitCode,
                   result, termOut, termErr, dirOnDisk, childEnd, removeErr,
                   ret, handler, sigCh, fwdSig, delivered, arrived, call>>

\* What the child has written so far
ChildStdout == SubSeq(outAll, 1, outIdx)
ChildStderr == SubSeq(errAll, 1, errIdx)

\* ------------------------------------------------------------------------
\* syncWriter
\* ------------------------------------------------------------------------

\* Lock that does not wait for the mutex to be free
Lock_NoWait(p) == mu' = p

\* sw.mu.Lock() by pump p
Lock(p) ==
    /\ mu = "free"
    /\ mu' = p

\* ------------------------------------------------------------------------
\* The stdout pump: io.Copy(&stdoutBuf, stdoutReader)
\* ------------------------------------------------------------------------

\* A read from the stdout pipe returns some of the blocks in it.  Without a
\* log they go to stdoutBuf; with one the TeeReader writes them to the log
\* first.
OutRead ==
    /\ outPump = "read"
    /\ outPipe # <<>>
    /\ \E k \in 1..Len(outPipe) :
         /\ outPipe' = SubSeq(outPipe, k + 1, Len(outPipe))
         /\ IF HasLogWriter
            THEN /\ outChunk' = SubSeq(outPipe, 1, k)
                 /\ outPump' = "lock"
                 /\ UNCHANGED stdoutBuf
            ELSE /\ stdoutBuf' = stdoutBuf \o SubSeq(outPipe, 1, k)
                 /\ UNCHANGED <<outChunk, outPump>>
    /\ UNCHANGED <<cfg, pipeCap, pc, strategy, logFile, logFilePath, handle,
                   closes, onDisk, logContent, mu, childState, outAll, errAll,
                   outIdx, errIdx, errPipe, errPump, errChunk, stdoutCopyErr,
                   stderrCopyErr, exitCode, result, termOut, termErr,
                   dirOnDisk, childEnd, removeErr, ret, handler, sigCh, fwdSig,
                   delivered, arrived, call>>

\* The read returns io.EOF: the pipe is empty and its write end is closed
OutEOF ==
    /\ outPump = "read"
    /\ outPipe = <<>>
    /\ childState # "running"
    /\ outPump' = "done"
    /\ UNCHANGED <<cfg, pipeCap, pc, strategy, logFile, logFilePath, handle,
                   closes, onDisk, logContent, mu, childState, outAll, errAll,
                   outIdx, errIdx, outPipe, errPipe, errPump, outChunk,
                   errChunk, stdoutBuf, stdoutCopyErr, stderrCopyErr, exitCode,
                   result, termOut, termErr, dirOnDisk, childEnd, removeErr,
                   ret, handler, sigCh, fwdSig, delivered, arrived, call>>

\* syncWriter.Write: take the mutex
OutLock ==
    /\ outPump = "lock"
    /\ Lock("out")
    /\ outPump' = "write"
    /\ UNCHANGED <<cfg, pipeCap, pc, strategy, logFile, logFilePath, handle,
                   closes, onDisk, logContent, childState, outAll, errAll,
                   outIdx, errIdx, outPipe, errPipe, errPump, outChunk,
                   errChunk, stdoutBuf, stdoutCopyErr, stderrCopyErr, exitCode,
                   result, termOut, termErr, dirOnDisk, childEnd, removeErr,
                   ret, handler, sigCh, fwdSig, delivered, arrived, call>>

\* sw.w.Write: the next block of the chunk reaches the file; after the last
\* one Write returns, the mutex is released and the chunk is in stdoutBuf
OutWrite ==
    /\ outPump = "write"
    /\ logContent' = Append(logContent, Head(outChunk))
    /\ stdoutBuf' = Append(stdoutBuf, Head(outChunk))
    /\ outChunk' = Tail(outChunk)
    /\ IF Len(outChunk) = 1
       THEN mu' = "free" /\ outPump' = "read"
       ELSE UNCHANGED <<mu, outPump>>
    /\ UNCHANGED <<cfg, pipeCap, pc, strategy, logFile, logFilePath, handle,
                   closes, onDisk, childState, outAll, errAll, outIdx, errIdx,
                   outPipe, errPipe, errPump, errChunk, stdoutCopyErr,
                   stderrCopyErr, exitCode, result, termOut, termErr,
                   dirOnDisk, childEnd, removeErr, ret, handler, sigCh, fwdSig,
                   delivered, arrived, call>>

\* sw.w.Write fails (disk full): the TeeReader returns the count written and
\* the error, stdoutBuf keeps that many bytes, and io.Copy returns the error
OutWriteFail ==
    /\ outPump = "write"
    /\ mu' = "free"
    /\ outChunk' = <<>>
    /\ stdoutCopyErr' = TRUE
    /\ outPump' = "done"
    /\ UNCHANGED <<cfg, pipeCap, pc, strategy, logFile, logFilePath, handle,
                   closes, onDisk, logContent, childState, outAll, errAll,
                   outIdx, errIdx, outPipe, errPipe, errPump, errChunk,
                   stdoutBuf, stderrCopyErr, exitCode, result, termOut,
                   termErr, dirOnDisk, childEnd, removeErr, ret, handler,
                   sigCh, fwdSig, delivered, arrived, call>>

\* ------------------------------------------------------------------------
\* The stderr pump: io.Copy(stderrMulti, stderrPipe)
\* ------------------------------------------------------------------------

\* A read from the stderr pipe returns some of the blocks in it; the
\* MultiWriter writes them to os.Stderr first, then to the log if any
ErrRead ==
    /\ errPump = "read"
    /\ errPipe # <<>>
    /\ \E k \in 1..Len(errPipe) :
         /\ errPipe' = SubSeq(errPipe, k + 1, Len(errPipe))
         /\ termErr' = termErr \o SubSeq(errPipe, 1, k)
         /\ IF HasLogWriter
            THEN /\ errChunk' = SubSeq(errPipe, 1, k)
                 /\ errPump' = "lock"
            ELSE UNCHANGED <<errChunk, errPump>>
    /\ UNCHANGED <<cfg, pipeCap, pc, strategy, logFile, logFilePath, handle,
                   closes, onDisk, logContent, mu, childState, outAll, errAll,
                   outIdx, errIdx, outPipe, outPump, outChunk, stdoutBuf,
                   stdoutCopyErr, stderrCopyErr, exitCode, result, termOut,
                   dirOnDisk, childEnd, removeErr, ret, handler, sigCh, fwdSig,
                   delivered, arrived, call>>

ErrEOF ==
    /\ errPump = "read"
    /\ errPipe = <<>>
    /\ childState # "running"
    /\ errPump' = "done"
    /\ UNCHANGED <<cfg, pipeCap, pc, strategy, logFile, logFilePath, handle,
                   closes, onDisk, logContent, mu, childState, outAll, errAll,
                   outIdx, errIdx, outPipe, errPipe, outPump, outChunk,
                   errChunk, stdoutBuf, stdoutCopyErr, stderrCopyErr, exitCode,
                   result, termOut, termErr, dirOnDisk, childEnd, removeErr,
                   ret, handler, sigCh, fwdSig, delivered, arrived, call>>

ErrLock ==
    /\ errPump = "lock"
    /\ Lock("err")
    /\ errPump' = "write"
    /\ UNCHANGED <<cfg, pipeCap, pc, strategy, logFile, logFilePath, handle,
                   closes, onDisk, logContent, childState, outAll, errAll,
                   outIdx, errIdx, outPipe, errPipe, outPump, outChunk,
                   errChunk, stdoutBuf, stdoutCopyErr, stderrCopyErr, exitCode,
                   result, termOut, termErr, dirOnDisk, childEnd, removeErr,
                   ret, handler, sigCh, fwdSig, delivered, arrived, call>>

ErrWrite ==
    /\ errPump = "write"
    /\ logContent' = Append(logContent, Head(errChunk))
    /\ errChunk' = Tail(errChunk)
    /\ IF Len(errChunk) = 1
       THEN mu' = "free" /\ errPump' = "read"
       ELSE UNCHANGED <<mu, errPump>>
    /\ UNCHANGED <<cfg, pipeCap, pc, strategy, logFile, logFilePath, handle,
                   closes, onDisk, childState, outAll, errAll, outIdx, errIdx,
                   outPipe, errPipe, outPump, outChunk, stdoutBuf,
                   stdoutCopyErr, stderrCopyErr, exitCode, result, termOut,
                   termErr, dirOnDisk, childEnd, removeErr, ret, handler,
                   sigCh, fwdSig, delivered, arrived, call>>

\* The log write fails: MultiWriter.Write returns the error and io.Copy stops
ErrWriteFail ==
    /\ errPump = "write"
    /\ mu' = "free"
    /\ errChunk' = <<>>
    /\ stderrCopyErr' = TRUE
    /\ errPump' = "done"
    /\ UNCHANGED <<cfg, pipeCap, pc, strategy, logFile, logFilePath, handle,
                   closes, onDisk, logContent, childState, outAll, errAll,
                   outIdx, errIdx, outPipe, errPipe, outPump, outChunk,
                   stdoutBuf, stdoutCopyErr, exitCode, result, termOut,
                   termErr, dirOnDisk, childEnd, removeErr, ret, handler,
                   sigCh, fwdSig, delivered, arrived, call>>

\* ------------------------------------------------------------------------
\* The supervisor goroutine, from wg.Wait to the return
\* ------------------------------------------------------------------------

\* A join that waits for the stderr pump only
PumpsDone_StderrOnly == errPump = "done"

\* wg.Wait() returns once both pumps have called wg.Done
PumpsDone == outPump = "done" /\ errPump = "done"

\* wg.Wait(), then the warnings for copy errors
JoinPumps ==
    /\ pc = "wgWait"
    /\ PumpsDone
    /\ termErr' = termErr
          \o (IF stdoutCopyErr THEN <<Msg("warning: error reading stdout")>> ELSE <<>>)
          \o (IF stderrCopyErr THEN <<Msg("warning: error reading stderr")>> ELSE <<>>)
    /\ pc' = "cmdWait"
    /\ UNCHANGED <<cfg, pipeCap, strategy, logFile, logFilePath, handle,
                   closes, onDisk, logContent, mu, childState, outAll, errAll,
                   outIdx, errIdx, outPipe, errPipe, outPump, errPump,
                   outChunk, errChunk, stdoutBuf, stdoutCopyErr, stderrCopyErr,
                   exitCode, result, termOut, dirOnDisk, childEnd, removeErr,
                   ret, handler, sigCh, fwdSig, delivered, arrived, call>>

\* WaitExitCode without the override for a signaled child: ExitCode() of a
\* signaled child is -1
WaitExitCode_NoSignalCase(kind, v) ==
    CASE kind = "exited" -> v
      [] kind = "signaled" -> -1
      [] OTHER -> 1

\* The exit code Run derives from what cmd.Wait returns: nil or an ExitError
\* of a child that exited with status v, an ExitError of a child that signal
\* v terminated, or an error that is no ExitError
WaitExitCode(kind, v) ==
    CASE kind = "exited" -> v
      [] kind = "signaled" -> 128 + v
      [] OTHER -> 1

\* What cmd.Wait may report for a child that exited or was signaled: its
\* exit status, the signal that terminated it, or an error that carries no
\* wait status
WaitResults(cs) ==
    (IF cs = "exited"
     THEN {[kind |-> "exited", v |-> st] : st \in ExitStatuses}
     ELSE {[kind |-> "signaled", v |-> sig] : sig \in Signals})
    \cup {[kind |-> "waitError", v |-> 0]}

\* cmd.Wait(): blocks until the child has terminated, then closes the pipes
CmdWait ==
    /\ pc = "cmdWait"
    /\ childState \in {"exited", "signaled"}
    /\ \E w \in WaitResults(childState) :
         /\ childEnd' = w
         /\ exitCode' = WaitExitCode(w.kind, w.v)
    /\ childState' = "reaped"
    /\ outPipe' = <<>>
    /\ errPipe' = <<>>
    /\ pc' = "filter"
    /\ UNCHANGED <<cfg, pipeCap, strategy, logFile, logFilePath, handle,
                   closes, onDisk, logContent, mu, outAll, errAll, outIdx,
                   errIdx, outPump, errPump, outChunk, errChunk, stdoutBuf,
                   stdoutCopyErr, stderrCopyErr, result, termOut, termErr,
                   dirOnDisk, removeErr, ret, handler, sigCh, fwdSig,
                   delivered, arrived, call>>

\* The text a strategy shows in place of an output it reduced
Reduced == <<[s |-> "filtered", i |-> 0, n |-> 0]>>

\* The results strategy.Filter may give on raw.  PassthroughStrategy returns
\* the input with WasReduced = false; any other strategy either does the
\* same or returns a reduced text with WasReduced = true
FilterResults(strat, raw) ==
    {[Filtered |-> raw, WasReduced |-> FALSE]}
    \cup (IF strat # "passthrough" /\ raw # <<>>
          THEN {[Filtered |-> Reduced, WasReduced |-> TRUE]}
          ELSE {})

\* Apply filter
ApplyFilter ==
    /\ pc = "filter"
    /\ result' \in FilterResults(strategy, stdoutBuf)
    /\ pc' = "writeStdout"
    /\ UNCHANGED <<cfg, pipeCap, strategy, logFile, logFilePath, handle,
                   closes, onDisk, logContent, mu, childState, outAll, errAll,
                   outIdx, errIdx, outPipe, errPipe, outPump, errPump,
                   outChunk, errChunk, stdoutBuf, stdoutCopyErr, stderrCopyErr,
                   exitCode, termOut, termErr, dirOnDisk, childEnd, removeErr,
                   ret, handler, sigCh, fwdSig, delivered, arrived, call>>

\* Write filtered stdout; on a write error close the log and return
WriteStdout ==
    /\ pc = "writeStdout"
    /\ \E ok \in BOOLEAN :
         /\ termOut' = Append(termOut, [text |-> result.Filtered, ok |-> ok])
         /\ IF ok
            THEN /\ pc' = "cleanup"
                 /\ UNCHANGED <<handle, closes, ret, handler>>
            ELSE /\ CloseIfOpen
                 /\ StopSignals
                 /\ Return(exitCode, logFilePath)
    /\ UNCHANGED <<cfg, pipeCap, strategy, logFile, logFilePath, onDisk,
                   logContent, mu, childState, outAll, errAll, outIdx, errIdx,
                   outPipe, errPipe, outPump, errPump, outChunk, errChunk,
                   stdoutBuf, stdoutCopyErr, stderrCopyErr, exitCode, result,
                   termErr, dirOnDisk, childEnd, removeErr, sigCh, fwdSig,
                   delivered, arrived, call>>

\* IsSmallOutput with < in place of <=
IsSmallOutput_Strict ==
    /\ logFile # "nil"
    /\ ~result.WasReduced
    /\ ByteLen(stdoutBuf) < smallOutputThreshold

\* The condition of the small-output cleanup
IsSmallOutput ==
    /\ logFile # "nil"
    /\ ~result.WasReduced
    /\ ByteLen(stdoutBuf) <= smallOutputThreshold

\* Small output cleanup: close the log, remove it, try to remove its
\* directory, and clear logFilePath; os.Remove may fail either time
SmallCleanup ==
    /\ pc = "cleanup"
    /\ pc' = "close"
    /\ IF IsSmallOutput
       THEN /\ handle' = "closed"
            /\ closes' = closes + 1
            /\ logFile' = "nil"
            /\ \E removed \in BOOLEAN, dirRemoved \in BOOLEAN :
                 /\ removeErr' = IF removed THEN "nil" ELSE "error"
                 /\ onDisk' = (onDisk /\ ~removed)
                 /\ dirOnDisk' = (dirOnDisk /\ ~(removed /\ dirRemoved))
            /\ logFilePath' = ""
       ELSE UNCHANGED <<handle, closes, logFile, onDisk, dirOnDisk, logFilePath,
                        removeErr>>
    /\ UNCHANGED <<cfg, pipeCap, strategy, logContent, mu, childState, outAll,
                   errAll, outIdx, errIdx, outPipe, errPipe, outPump, errPump,
                   outChunk, errChunk, stdoutBuf, stdoutCopyErr, stderrCopyErr,
                   exitCode, result, termOut, termErr, childEnd, ret, handler,
                   sigCh, fwdSig, delivered, arrived, call>>

\* Normal cleanup: close if not already closed by the small-output path
NormalClose ==
    /\ pc = "close"
    /\ pc' = "footer"
    /\ CloseIfOpen
    /\ UNCHANGED <<cfg, pipeCap, strategy, logFile, logFilePath, onDisk,
                   logContent, mu, childState, outAll, errAll, outIdx, errIdx,
                   outPipe, errPipe, outPump, errPump, outChunk, errChunk,
                   stdoutBuf, stdoutCopyErr, stderrCopyErr, exitCode, result,
                   termOut, termErr, dirOnDisk, childEnd, removeErr, ret,
                   handler, sigCh, fwdSig, delivered, arrived, call>>

\* The footer line
Footer == Msg("Output was reduced, see the full logs at")

\* EmitsFooter without the test of WasReduced
EmitsFooter_AnyLog == logFilePath # ""

\* Write footer if output was reduced
EmitsFooter == result.WasReduced /\ logFilePath # ""

\* The footer, then return Result{ExitCode: exitCode, LogPath: logFilePath}
FooterAndReturn ==
    /\ pc = "footer"
    /\ termErr' = IF EmitsFooter THEN Append(termErr, Footer) ELSE termErr
    /\ StopSignals
    /\ Return(exitCode, logFilePath)
    /\ UNCHANGED <<cfg, pipeCap, strategy, logFile, logFilePath, handle,
                   closes, onDisk, logContent, mu, childState, outAll, errAll,
                   outIdx, errIdx, outPipe, errPipe, outPump, errPump,
                   outChunk, errChunk, stdoutBuf, stdoutCopyErr, stderrCopyErr,
                   exitCode, result, termOut, dirOnDisk, childEnd, removeErr,
                   sigCh, fwdSig, delivered, arrived, call>>

\* ------------------------------------------------------------------------
\* The specification of Run
\* ------------------------------------------------------------------------

Next ==
    \/ ResolveStrategy
    \/ SetUpLog
    \/ CreatePipes
    \/ StartCommand
    \/ SpawnPumps
    \/ ChildWriteOut
    \/ ChildWriteErr
    \/ ChildExit
    \/ ChildKilled
    \/ OutRead
    \/ OutEOF
    \/ OutLock
    \/ OutWrite
    \/ OutWriteFail
    \/ ErrRead
    \/ ErrEOF
    \/ ErrLock
    \/ ErrWrite
    \/ ErrWriteFail
    \/ JoinPumps
    \/ CmdWait
    \/ ApplyFilter
    \/ WriteStdout
    \/ SmallCleanup
    \/ NormalClose
    \/ FooterAndReturn

Spec == Init /\ [][Next]_vars

\* ------------------------------------------------------------------------
\* Signal forwarding
\* ------------------------------------------------------------------------

\* A signal reaches the supervisor process.  With the handler installed,
\* package signal sends it to sigCh without blocking: it is buffered if the
\* channel has room and dropped otherwise.  Without the handler the default
\* action terminates the supervisor.
SignalArrives ==
    /\ pc \notin {"returned", "killed"}
    /\ Len(arrived) < MaxSignals
    /\ \E sig \in ForwardedSignals :
         IF handler = "installed"
         THEN /\ arrived' = Append(arrived, sig)
              /\ sigCh' = IF Len(sigCh) < SigChCap THEN Append(sigCh, sig)
                                                  ELSE sigCh
              /\ UNCHANGED pc
         ELSE /\ pc' = "killed"
              /\ UNCHANGED <<arrived, sigCh>>
    /\ UNCHANGED <<cfg, pipeCap, strategy, logFile, logFilePath, handle,
                   closes, onDisk, logContent, mu, childState, outAll, errAll,
                   outIdx, errIdx, outPipe, errPipe, outPump, errPump,
                   outChunk, errChunk, stdoutBuf, stdoutCopyErr, stderrCopyErr,
                   exitCode, result, termOut, termErr, dirOnDisk, childEnd,
                   removeErr, ret, handler, fwdSig, delivered, call>>

\* for sig := range sigCh: the goroutine receives the oldest signal
ForwardReceive ==
    /\ handler # "default"
    /\ fwdSig = 0
    /\ sigCh # <<>>
    /\ fwdSig' = Head(sigCh)
    /\ sigCh' = Tail(sigCh)
    /\ UNCHANGED <<cfg, pipeCap, pc, strategy, logFile, logFilePath, handle,
                   closes, onDisk, logContent, mu, childState, outAll, errAll,
                   outIdx, errIdx, outPipe, errPipe, outPump, errPump,
                   outChunk, errChunk, stdoutBuf, stdoutCopyErr, stderrCopyErr,
                   exitCode, result, termOut, termErr, dirOnDisk, childEnd,
                   removeErr, ret, handler, delivered, arrived, call>>

\* _ = cmd.Process.Signal(sig): the signal is sent to the child unless the
\* child was reaped, in which case Signal returns an error that is dropped
ForwardSignal ==
    /\ fwdSig # 0
    /\ delivered' = IF childState = "reaped" THEN delivered
                                             ELSE Append(delivered, fwdSig)
    /\ fwdSig' = 0
    /\ UNCHANGED <<cfg, pipeCap, pc, strategy, logFile, logFilePath, handle,
                   closes, onDisk, logContent, mu, childState, outAll, errAll,
                   outIdx, errIdx, outPipe, errPipe, outPump, errPump,
                   outChunk, errChunk, stdoutBuf, stdoutCopyErr, stderrCopyErr,
                   exitCode, result, termOut, termErr, dirOnDisk, childEnd,
                   removeErr, ret, handler, sigCh, arrived, call>>

\* Run for a child of at most MaxSigBlocks blocks per stream, with signals
\* reaching the supervisor
SigInit ==
    /\ Init
    /\ pipeCap = 1
    /\ Len(outAll) <= MaxSigBlocks
    /\ Len(errAll) <= MaxSigBlocks

SigNext ==
    \/ Next
    \/ SignalArrives
    \/ ForwardReceive
    \/ ForwardSignal

SigSpec == SigInit /\ [][SigNext]_vars

\* ------------------------------------------------------------------------
\* Part II: the pure functions.  A call is a record of the function, its
\* input and its result; Run is not running.
\* ------------------------------------------------------------------------

\* Run is not running
RunIdle ==
    /\ RunInit
    /\ cfg = [NoFilter |-> FALSE, NoLog |-> FALSE]
    /\ pipeCap = 1
    /\ outAll = <<>>
    /\ errAll = <<>>

\* The function fn returns out
Returns(fn, out) ==
    /\ call.fn = fn
    /\ ~call.done
    /\ call' = [call EXCEPT !.out = out, !.done = TRUE]
    /\ UNCHANGED runVars

\* ------------------------------------------------------------------------
\* Registry.Find
\* ------------------------------------------------------------------------

\* The registries of the calls of Find: for each registered strategy, in
\* registration order, what its CanHandle answers for the command
MockRegistries == UNION {[1..n -> BOOLEAN] : n \in 0..MaxStrategies}

\* r.fallback, as the position 0
Fallback == 0

\* for _, s := range r.strategies { if s.CanHandle(...) { return s } }
\* return r.fallback: the position of the strategy returned
RECURSIVE FindFrom(_, _)
FindFrom(canHandle, i) ==
    IF i > Len(canHandle) THEN Fallback
    ELSE IF canHandle[i] THEN i
    ELSE FindFrom(canHandle, i + 1)

\* Find that never asks the first registered strategy
Find_SkipFirst(canHandle) == FindFrom(canHandle, 2)

\* Registry.Find
Find(canHandle) == FindFrom(canHandle, 1)

FindCall == Returns("Find", Find(call.in))

\* ------------------------------------------------------------------------
\* DefaultRegistry and the CanHandle predicates
\* ------------------------------------------------------------------------

gitValueFlags == {"-c", "-C", "--git-dir", "--work-tree"}
goValueFlags == {"-C"}
cargoValueFlags == {"--manifest-path", "--color"}
dockerValueFlags ==
    {"-H", "--host", "--config", "--context", "-l", "--log-level"}

\* dockerSubcmdValueFlags[sub], empty for a key the map does not have
dockerSubcmdValueFlags(sub) ==
    CASE sub = "buildx" -> {"--builder", "--platform"}
      [] sub = "compose" ->
           {"-f", "--file", "-p", "--project-name", "--profile"}
      [] OTHER -> {}

\* progressCommands[command], empty for a key the map does not have
progressCommands(command) ==
    CASE command = "npm" -> <<"install", "ci", "update">>
      [] command = "yarn" -> <<"install", "add">>
      [] command = "pip" -> <<"install">>
      [] command = "pip3" -> <<"install">>
      [] command = "docker" -> <<"pull", "push">>
      [] OTHER -> <<>>

\* progressValueFlags[command]
progressValueFlags(command) ==
    CASE command = "docker" ->
           {"--host", "-H", "--config", "--context", "-l", "--log-level"}
      [] command = "npm" -> {"--prefix", "--registry", "--cache"}
      [] command \in {"pip", "pip3"} ->
           {"--target", "-t", "--prefix", "--root", "-i", "--index-url"}
      [] command = "yarn" -> {"--cwd", "--modules-folder", "--cache-folder"}
      [] OTHER -> {}

\* The arguments of the calls that start with "-"
DashTokens ==
    {"-c", "-C", "--color", "-H", "-f", "--builder", "--prefix", "-t",
     "--cwd", "-v"}

\* strings.HasPrefix(a, "-")
HasDashPrefix(a) == a \in DashTokens

\* The loop of isSubcommand from argument i on
RECURSIVE isSubcommandFrom(_, _, _, _, _)
isSubcommandFrom(args, i, skip, subcmd, valueFlags) ==
    IF i > Len(args) THEN FALSE
    ELSE IF skip THEN isSubcommandFrom(args, i + 1, FALSE, subcmd, valueFlags)
    ELSE IF args[i] \in valueFlags
         THEN isSubcommandFrom(args, i + 1, TRUE, subcmd, valueFlags)
    ELSE IF HasDashPrefix(args[i])
         THEN isSubcommandFrom(args, i + 1, FALSE, subcmd, valueFlags)
    ELSE args[i] = subcmd

\* isSubcommand that knows no flag that takes a value
isSubcommand_NoValueFlags(args, subcmd, valueFlags) ==
    isSubcommandFrom(args, 1, FALSE, subcmd, {})

isSubcommand(args, subcmd, valueFlags) ==
    isSubcommandFrom(args, 1, FALSE, subcmd, valueFlags)

\* The loop of dockerSubcommands from argument i on: the positional
\* arguments found, at most two
RECURSIVE dockerPositional(_, _, _, _, _, _)
dockerPositional(args, i, skip, positional, valueFlags, subcmdFlags) ==
    IF i > Len(args) \/ Len(positional) = 2 THEN positional
    ELSE IF skip
         THEN dockerPositional(args, i + 1, FALSE, positional, valueFlags,
                               subcmdFlags)
    ELSE IF args[i] \in valueFlags \/ args[i] \in subcmdFlags
         THEN dockerPositional(args, i + 1, TRUE, positional, valueFlags,
                               subcmdFlags)
    ELSE IF HasDashPrefix(args[i])
         THEN dockerPositional(args, i + 1, FALSE, positional, valueFlags,
                               subcmdFlags)
    ELSE dockerPositional(args, i + 1, FALSE, Append(positional, args[i]),
                          valueFlags,
                          IF positional = <<>>
                          THEN dockerSubcmdValueFlags(args[i])
                          ELSE subcmdFlags)

\* dockerSubcommands: the first two positional arguments, "" if missing
dockerSubcommands(args, valueFlags) ==
    LET positional == dockerPositional(args, 1, FALSE, <<>>, valueFlags, {})
    IN  <<IF Len(positional) > 0 THEN positional[1] ELSE "",
          IF Len(positional) > 1 THEN positional[2] ELSE "">>

GitStatusStrategy_CanHandle(command, args) ==
    command = "git" /\ isSubcommand(args, "status", gitValueFlags)

GitDiffStrategy_CanHandle(command, args) ==
    command = "git" /\ isSubcommand(args, "diff", gitValueFlags)

GitLogStrategy_CanHandle(command, args) ==
    command = "git" /\ isSubcommand(args, "log", gitValueFlags)

GoTestStrategy_CanHandle(command, args) ==
    command = "go" /\ isSubcommand(args, "test", goValueFlags)

GoBuildStrategy_CanHandle(command, args) ==
    /\ command = "go"
    /\ \/ isSubcommand(args, "build", goValueFlags)
       \/ isSubcommand(args, "vet", goValueFlags)
       \/ isSubcommand(args, "install", goValueFlags)

CargoTestStrategy_CanHandle(command, args) ==
    command = "cargo" /\ isSubcommand(args, "test", cargoValueFlags)

CargoBuildStrategy_CanHandle(command, args) ==
    /\ command = "cargo"
    /\ \/ isSubcommand(args, "build", cargoValueFlags)
       \/ isSubcommand(args, "check", cargoValueFlags)
       \/ isSubcommand(args, "clippy", cargoValueFlags)

DockerBuildStrategy_CanHandle(command, args) ==
    /\ command = "docker"
    /\ \/ isSubcommand(args, "build", dockerValueFlags)
       \/ LET subs == dockerSubcommands(args, dockerValueFlags)
          IN  subs[1] \in {"buildx", "compose"} /\ subs[2] = "build"

GrepGroupStrategy_CanHandle(command, args) ==
    command = "grep" \/ command = "rg"

ProgressStripStrategy_CanHandle(command, args) ==
    \E k \in DOMAIN progressCommands(command) :
       isSubcommand(args, progressCommands(command)[k],
                    progressValueFlags(command))

GenericErrorStrategy_CanHandle(command, args) == TRUE

PassthroughStrategy_CanHandle(command, args) == TRUE

\* s.CanHandle(command, args) of the strategy called name
CanHandle(name, command, args) ==
    CASE name = "git-status" -> GitStatusStrategy_CanHandle(command, args)
      [] name = "git-diff" -> GitDiffStrategy_CanHandle(command, args)
      [] name = "git-log" -> GitLogStrategy_CanHandle(command, args)
      [] name = "go-test" -> GoTestStrategy_CanHandle(command, args)
      [] name = "go-build" -> GoBuildStrategy_CanHandle(command, args)
      [] name = "cargo-test" -> CargoTestStrategy_CanHandle(command, args)
      [] name = "cargo-build" -> CargoBuildStrategy_CanHandle(command, args)
      [] name = "docker-build" -> DockerBuildStrategy_CanHandle(command, args)
      [] name = "grep-group" -> GrepGroupStrategy_CanHandle(command, args)
      [] name = "progress-strip" ->
           ProgressStripStrategy_CanHandle(command, args)
      [] name = "generic-error" ->
           GenericErrorStrategy_CanHandle(command, args)
      [] name = "passthrough" -> PassthroughStrategy_CanHandle(command, args)

\* DefaultRegistry with the generic error strategy registered first
DefaultRegistry_GenericFirst ==
    <<"generic-error", "git-status", "git-diff", "git-log", "go-test",
      "go-build", "cargo-test", "cargo-build", "docker-build", "grep-group",
      "progress-strip">>

\* DefaultRegistry: the names of the registered strategies, in order
DefaultRegistry ==
    <<"git-status", "git-diff", "git-log", "go-test", "go-build",
      "cargo-test", "cargo-build", "docker-build", "grep-group",
      "progress-strip", "generic-error">>

\* DefaultRegistry().Find(command, args).Name()
DefaultFind(command, args) ==
    LET i == Find([k \in DOMAIN DefaultRegistry
                     |-> CanHandle(DefaultRegistry[k], command, args)])
    IN  IF i = Fallback THEN "passthrough" ELSE DefaultRegistry[i]

DefaultFindCall ==
    Returns("DefaultFind", DefaultFind(call.in.command, call.in.args))

\* cocSupportedCommands: the commands the hook wraps
cocSupportedCommands ==
    {"git", "go", "cargo", "docker", "grep", "rg", "npm", "pip", "pip3",
     "yarn"}

\* The commands of the calls: the supported ones and one other
Commands == cocSupportedCommands \cup {"make"}

\* The arguments tried with a command: its subcommands, flags that take a
\* value, a flag that takes none and a plain word
ArgTokens(command) ==
    {"-v", "x"} \cup
    CASE command = "git" -> {"status", "diff", "log", "commit", "-c"}
      [] command = "go" -> {"test", "build", "vet", "install", "-C"}
      [] command = "cargo" -> {"test", "build", "check", "clippy", "--color"}
      [] command = "docker" ->
           {"build", "buildx", "compose", "pull", "push", "-H", "-f",
            "--builder"}
      [] command = "npm" -> {"install", "ci", "update", "test", "--prefix"}
      [] command = "yarn" -> {"install", "add", "--cwd"}
      [] command \in {"pip", "pip3"} -> {"install", "-t"}
      [] OTHER -> {"status", "build"}

\* The argument lists of at most MaxArgs arguments for a command
ArgLists(command) ==
    UNION {[1..n -> ArgTokens(command)] : n \in 0..MaxArgs}

CommandLines ==
    UNION {[command : {c}, args : ArgLists(c)] : c \in Commands}


\* ------------------------------------------------------------------------
\* StripANSI.  A text is a sequence of characters.
\* ------------------------------------------------------------------------

ESC == "\\x1b"
BEL == "\\x07"

\* [0-9;:?], [a-zA-Z], [()], [AB012] and [=>] of ansiPattern
ParamChars == {"0", "1", "2", "3", "4", "5", "6", "7", "8", "9", ";", ":", "?"}
LetterChars == {"m", "A", "B", "H", "K", "h", "l"}
ParenChars == {"(", ")"}
CharsetChars == {"A", "B", "0", "1", "2"}
KeypadChars == {"=", ">"}

\* The characters of the texts StripANSI is called on
AnsiChars == {ESC, BEL, "[", "]", "(", "=", "0", "m", "B", "\\", " "}

AnsiTexts == UNION {[1..n -> AnsiChars] : n \in 0..MaxAnsiLen}

\* The first position from i on where s has a character outside cls
RECURSIVE SkipWhile(_, _, _)
SkipWhile(s, i, cls) ==
    IF i <= Len(s) /\ s[i] \in cls THEN SkipWhile(s, i + 1, cls) ELSE i

\* The first position from i on where s has BEL or ESC
RECURSIVE SkipOSC(_, _)
SkipOSC(s, i) ==
    IF i <= Len(s) /\ s[i] \notin {BEL, ESC} THEN SkipOSC(s, i + 1) ELSE i

\* The length of the match of ansiPattern that starts at position i of s,
\* 0 if there is none.  The four alternatives differ in their second
\* character, and each repetition can end in one place only.
AnsiMatchLen(s, i) ==
    IF i + 1 > Len(s) \/ s[i] # ESC THEN 0
    ELSE CASE s[i + 1] = "[" ->
                LET j == SkipWhile(s, i + 2, ParamChars)
                IN  IF j <= Len(s) /\ s[j] \in LetterChars
                    THEN j + 1 - i ELSE 0
           [] s[i + 1] = "]" ->
                LET j == SkipOSC(s, i + 2)
                IN  IF j <= Len(s) /\ s[j] = BEL THEN j + 1 - i
                    ELSE IF j + 1 <= Len(s) /\ s[j] = ESC /\ s[j + 1] = "\\"
                    THEN j + 2 - i
                    ELSE 0
           [] s[i + 1] \in ParenChars ->
                IF i + 2 <= Len(s) /\ s[i + 2] \in CharsetChars THEN 3 ELSE 0
           [] s[i + 1] \in KeypadChars -> 2
           [] OTHER -> 0

\* ReplaceAll from position i on: the matches are found from left to right
\* and do not overlap
RECURSIVE StripFrom(_, _)
StripFrom(s, i) ==
    IF i > Len(s) THEN <<>>
    ELSE LET n == AnsiMatchLen(s, i)
         IN  IF n > 0 THEN StripFrom(s, i + n)
             ELSE <<s[i]>> \o StripFrom(s, i + 1)

\* ansiPattern.ReplaceAll(b, nil)
StripANSI(s) == StripFrom(s, 1)

StripANSICall == Returns("StripANSI", StripANSI(call.in))

\* ------------------------------------------------------------------------
\* logpath: Slug and Resolve.  A string is a sequence of characters, a path
\* a sequence of path elements.
\* ------------------------------------------------------------------------

\* The characters of the commands and arguments
SlugChars == {"a", "B", ".", "-", "/", "\\", " "}

\* strings.ToLower on one character
ToLowerChar(c) == IF c = "B" THEN "b" ELSE c

ToLower(s) == [i \in DOMAIN s |-> ToLowerChar(s[i])]

\* [a-zA-Z0-9._-] of slugUnsafe, among the characters used
SlugSafeChars == {"a", "b", "B", ".", "-", "_", "0"}

\* slugUnsafe.ReplaceAllString(s, "-") from position i on: each maximal
\* run of unsafe characters becomes one dash
RECURSIVE ReplaceUnsafe(_, _)
ReplaceUnsafe(s, i) ==
    IF i > Len(s) THEN <<>>
    ELSE IF s[i] \in SlugSafeChars THEN <<s[i]>> \o ReplaceUnsafe(s, i + 1)
    ELSE <<"-">> \o ReplaceUnsafe(s, SkipWhile(s, i, SlugChars \ SlugSafeChars))

\* slugDashes.ReplaceAllString(s, "-") from position i on: each run of two
\* or more dashes becomes one dash
RECURSIVE CollapseDashes(_, _)
CollapseDashes(s, i) ==
    IF i > Len(s) THEN <<>>
    ELSE IF s[i] = "-" THEN <<"-">> \o CollapseDashes(s, SkipWhile(s, i, {"-"}))
    ELSE <<s[i]>> \o CollapseDashes(s, i + 1)

\* The first position from i down where s has a character outside cls
RECURSIVE SkipBack(_, _, _)
SkipBack(s, i, cls) ==
    IF i >= 1 /\ s[i] \in cls THEN SkipBack(s, i - 1, cls) ELSE i

\* strings.Trim(s, "-")
TrimDashes(s) ==
    LET first == SkipWhile(s, 1, {"-"})
        last == SkipBack(s, Len(s), {"-"})
    IN  IF first > last THEN <<>> ELSE SubSeq(s, first, last)

sanitizeSlugPart(s) ==
    TrimDashes(CollapseDashes(ReplaceUnsafe(ToLower(s), 1), 1))

\* The position before the last element of s[1..last]: that of the last
\* separator in it, 0 if there is none
RECURSIVE LastSep(_, _)
LastSep(s, last) ==
    IF last >= 1 /\ s[last] # "/" THEN LastSep(s, last - 1) ELSE last

\* filepath.Base: "." for the empty path, "/" for a path of separators
\* only, else the last element after the trailing separators are removed
Base(path) ==
    IF path = <<>> THEN <<".">>
    ELSE LET last == SkipBack(path, Len(path), {"/"})
         IN  IF last = 0 THEN <<"/">>
             ELSE SubSeq(path, LastSep(path, last) + 1, last)

\* strings.HasPrefix(arg, "-")
IsFlagArg(arg) == arg # <<>> /\ arg[1] = "-"

\* The loop of Slug: the parts after the arguments from i on were seen
RECURSIVE SlugParts(_, _, _)
SlugParts(parts, args, i) ==
    IF i > Len(args) THEN parts
    ELSE IF IsFlagArg(args[i]) THEN SlugParts(parts, args, i + 1)
    ELSE LET more == Append(parts, sanitizeSlugPart(Base(args[i])))
         IN  IF Len(more) >= 2 THEN more ELSE SlugParts(more, args, i + 1)

\* strings.Join(parts, sep)
RECURSIVE JoinWith(_, _)
JoinWith(parts, sep) ==
    IF parts = <<>> THEN <<>>
    ELSE IF Len(parts) = 1 THEN parts[1]
    ELSE parts[1] \o sep \o JoinWith(Tail(parts), sep)

\* Slug without the cut at slugMaxLen bytes
Slug_Uncut(command, args) ==
    JoinWith(SlugParts(<<sanitizeSlugPart(Base(command))>>, args, 1), <<"-">>)

Slug(command, args) ==
    LET slug == JoinWith(SlugParts(<<sanitizeSlugPart(Base(command))>>,
                                   args, 1), <<"-">>)
    IN  IF Len(slug) > slugMaxLen THEN SubSeq(slug, 1, slugMaxLen) ELSE slug

SlugCall == Returns("Slug", Slug(call.in.command, call.in.args))

\* baseDir: the flag, else COC_LOG_DIR, else os.TempDir()/coc
baseDir(flagDir, envDir, tempDir) ==
    IF flagDir # <<>> THEN flagDir
    ELSE IF envDir # <<>> THEN envDir
    ELSE tempDir \o <<"/", "c", "o", "c">>

\* The first position from i on where s has a separator
RECURSIVE SkipToSep(_, _)
SkipToSep(s, i) ==
    IF i <= Len(s) /\ s[i] # "/" THEN SkipToSep(s, i + 1) ELSE i

\* The elements of a string split at the separators
RECURSIVE SplitPath(_, _)
SplitPath(s, i) ==
    IF i > Len(s) THEN <<>>
    ELSE IF s[i] = "/" THEN SplitPath(s, i + 1)
    ELSE LET j == SkipToSep(s, i)
         IN  <<SubSeq(s, i, j - 1)>> \o SplitPath(s, j)

\* filepath.Clean on the elements of a rooted path: "." is dropped and
\* ".." removes the element before it, or nothing at the root
RECURSIVE CleanElems(_, _)
CleanElems(done, rest) ==
    IF rest = <<>> THEN done
    ELSE IF Head(rest) = <<".">> THEN CleanElems(done, Tail(rest))
    ELSE IF Head(rest) = <<".", ".">>
         THEN CleanElems(IF done = <<>> THEN done
                         ELSE SubSeq(done, 1, Len(done) - 1), Tail(rest))
    ELSE CleanElems(Append(done, Head(rest)), Tail(rest))

\* filepath.Join of rooted paths: the non-empty arguments joined with
\* separators, then Clean; the result as its elements
JoinPath(elems) ==
    CleanElems(<<>>, SplitPath(JoinWith(SelectSeq(elems, LAMBDA e : e # <<>>),
                                        <<"/">>), 1))

\* SessionID() + ".log"
SessionFile == <<"s", ".", "l", "o", "g">>

\* Resolve: the elements of the path returned
Resolve(flagDir, envDir, tempDir, command, args) ==
    JoinPath(<<baseDir(flagDir, envDir, tempDir), Slug(command, args),
               SessionFile>>)

ResolveCall ==
    Returns("Resolve", Resolve(call.in.flagDir, call.in.envDir,
                               call.in.tempDir, call.in.command,
                               call.in.args))

\* The strings of at most n characters
Words(n) == UNION {[1..k -> SlugChars] : k \in 0..n}

\* A string of n letters
Letters(n) == [i \in 1..n |-> "a"]

\* Words around the length at which Slug cuts
LongWords == {Letters(slugMaxLen - 2), Letters(slugMaxLen), Letters(slugMaxLen + 6)}

\* The calls of Slug: short commands with up to two short arguments, and
\* long ones
SlugInputs ==
    [command : Words(MaxWordLen),
     args : UNION {[1..k -> Words(MaxArgLen)] : k \in 0..1}]
    \cup [command : {<<"a">>, <<".", ".">>},
          args : [1..2 -> Words(MaxArgLen)]]
    \cup [command : {<<"a">>} \cup LongWords,
          args : UNION {[1..k -> LongWords \cup {<<"-", "a">>}] : k \in 0..2}]

\* The base directories of the calls of Resolve, as rooted paths
RootedDirs == {<<"/", "t">>, <<"/", "t", "/", "b">>}

\* The calls of Resolve
ResolveInputs ==
    [flagDir : {<<>>} \cup RootedDirs,
     envDir : {<<>>, <<"/", "t", "/", "b">>},
     tempDir : {<<"/", "t">>},
     command : Words(MaxWordLen),
     args : UNION {[1..k -> Words(MaxArgLen)] : k \in 0..1}]

\* ------------------------------------------------------------------------
\* Strategy.Filter.  A text is the sequence of its lines as
\* strings.Split(text, "\n") gives them: it is never empty, and a text that
\* ends with a newline has an empty last line.  A line is the sequence of
\* its tokens: the literals the filters look for and the text between them.
\* A token is a string that is not empty.
\* ------------------------------------------------------------------------

\* Complete escape sequences, as tokens
AnsiTokens == {"\\x1b[31m", "\\x1b[0m"}

\* The tokens of white space only
WhiteTokens == {" ", "  ", "   ", "    ", "\t"}

\* StripANSIString on a text of whole escape sequences and plain tokens
StripANSIString(text) ==
    [i \in DOMAIN text |-> SelectSeq(text[i], LAMBDA t : t \notin AnsiTokens)]

\* strings.HasPrefix(line, tok)
HasPrefix(line, tok) == line # <<>> /\ line[1] = tok

\* strings.Contains(line, tok)
ContainsToken(line, tok) == \E i \in DOMAIN line : line[i] = tok

\* strings.Contains(text, tok), for a token without a newline
TextContains(text, tok) == \E i \in DOMAIN text : ContainsToken(text[i], tok)

\* strings.TrimSpace(line) == ""
IsBlank(line) == \A i \in DOMAIN line : line[i] \in WhiteTokens

\* a regular expression of the form ^tok\s
PrefixThenSpace(line, tok) ==
    HasPrefix(line, tok) /\ Len(line) >= 2 /\ line[2] \in WhiteTokens

\* len(line) in bytes
RECURSIVE LineLen(_)
LineLen(line) ==
    IF line = <<>> THEN 0 ELSE Len(Head(line)) + LineLen(Tail(line))

\* the bytes of the lines, without the newlines between them
RECURSIVE LinesLen(_)
LinesLen(lines) ==
    IF lines = <<>> THEN 0 ELSE LineLen(Head(lines)) + LinesLen(Tail(lines))

\* len(text) in bytes
TextLen(text) == LinesLen(text) + Len(text) - 1

\* endsWithNewline
endsWithNewline(text) == Len(text) > 1 /\ text[Len(text)] = <<>>

\* strings.Join(out, "\n") as a text: joining nothing gives the empty text
JoinLines(out) == IF out = <<>> THEN << <<>> >> ELSE out

\* ensureTrailingNewline that never appends the newline
ensureTrailingNewline_Never(text, hadTrailing) == text

\* ensureTrailingNewline
ensureTrailingNewline(text, hadTrailing) ==
    IF hadTrailing /\ ~endsWithNewline(text)
      THEN Append(text, <<>>)
      ELSE text

\* strings.Replace(line, from, to, 1)
RECURSIVE ReplaceFirst(_, _, _)
ReplaceFirst(line, from, to) ==
    IF line = <<>> THEN <<>>
    ELSE IF Head(line) = from THEN <<to>> \o Tail(line)
    ELSE <<Head(line)>> \o ReplaceFirst(Tail(line), from, to)

\* The result of a strategy that leaves the text as it is
Unreduced(text) == [Filtered |-> text, WasReduced |-> FALSE]

\* --- PassthroughStrategy ---

PassthroughStrategy_Filter(raw, code) == Unreduced(raw)

\* --- GitStatusStrategy ---

statusReplacements ==
    << <<"modified:", "M">>, <<"new file:", "A">>, <<"deleted:", "D">>,
       <<"renamed:", "R">>, <<"copied:", "C">>, <<"typechange:", "T">> >>

\* The first replacement whose marker the line contains is applied, once
RECURSIVE ConvertStatus(_, _)
ConvertStatus(line, i) ==
    IF i > Len(statusReplacements) THEN line
    ELSE IF ContainsToken(line, statusReplacements[i][1])
      THEN ReplaceFirst(line, statusReplacements[i][1],
                        statusReplacements[i][2])
      ELSE ConvertStatus(line, i + 1)

\* A turn of the loop that counts every file as staged
GitStatusLine_AllStaged(st, line) ==
    IF HasPrefix(line, "\t")
      THEN [st EXCEPT !.out = Append(@, ConvertStatus(line, 1)),
                      !.staged = @ + 1]
    ELSE IF HasPrefix(line, "  (use \"git")
      THEN st
      ELSE [st EXCEPT !.out = Append(@, line)]

\* One turn of the loop over the lines of git status
GitStatusLine(st, line) ==
    IF \/ HasPrefix(line, "On branch ")
       \/ HasPrefix(line, "HEAD detached at ")
       \/ HasPrefix(line, "HEAD detached from ")
      THEN [st EXCEPT !.out = Append(@, line)]
    ELSE IF HasPrefix(line, "Changes to be committed:")
      THEN [st EXCEPT !.section = "staged", !.out = Append(@, line)]
    ELSE IF HasPrefix(line, "Changes not staged for commit:")
      THEN [st EXCEPT !.section = "unstaged", !.out = Append(@, line)]
    ELSE IF HasPrefix(line, "Untracked files:")
      THEN [st EXCEPT !.section = "untracked", !.out = Append(@, line)]
    ELSE IF HasPrefix(line, "  (use \"git")
      THEN st
    ELSE IF HasPrefix(line, "\t")
      THEN [st EXCEPT
              !.out = Append(@, ConvertStatus(line, 1)),
              !.staged = IF st.section = "staged" THEN @ + 1 ELSE @,
              !.unstaged = IF st.section = "unstaged" THEN @ + 1 ELSE @,
              !.untracked = IF st.section = "untracked" THEN @ + 1 ELSE @]
    ELSE IF IsBlank(line)
      THEN [st EXCEPT !.out = Append(@, line)]
    ELSE st

RECURSIVE GitStatusScan(_, _)
GitStatusScan(lines, st) ==
    IF lines = <<>> THEN st
    ELSE GitStatusScan(Tail(lines), GitStatusLine(st, Head(lines)))

GitStatusStrategy_Filter(raw, code) ==
    LET cleaned == StripANSIString(raw)
        hadTrailing == endsWithNewline(cleaned)
        lines == cleaned
        st == GitStatusScan(lines, [out |-> <<>>, section |-> "",
                                    staged |-> 0, unstaged |-> 0,
                                    untracked |-> 0])
        summary == <<ToString(st.staged), " staged, ",
                     ToString(st.unstaged), " unstaged, ",
                     ToString(st.untracked), " untracked">>
        filtered == JoinLines(Append(st.out, summary))
    IN  IF TextContains(cleaned, "nothing to commit, working tree clean")
          THEN Unreduced(cleaned)
        ELSE IF Len(lines) < 5
          THEN Unreduced(cleaned)
        ELSE [Filtered |-> ensureTrailingNewline(filtered, hadTrailing),
              WasReduced |-> TRUE]

\* --- GitDiffStrategy ---

\* The name that binaryFileNameRe, ^Binary files (?:a/\S+ and )?b/(\S+) differ$,
\* or else binaryFileNameFallbackRe, ^Binary files a/(\S+) and /dev/null differ$,
\* finds in a line of a binary file; <<>> is no name
binaryFileName(line) ==
    IF Len(line) = 7 /\ line[2] = "a/" /\ line[4] = " and " /\ line[5] = "b/"
      THEN <<line[6]>>
    ELSE IF Len(line) = 4 /\ line[2] = "b/"
      THEN <<line[3]>>
    ELSE IF Len(line) = 6 /\ line[2] = "a/" /\ line[4] = " and "
            /\ line[5] = "/dev/null"
      THEN <<line[3]>>
    ELSE <<>>

\* One turn of the loop over the lines of git diff.  fileStats is a slice
\* of capacity cap; currentFile points at the element cur of the backing
\* array that fileStats had when the pointer was taken, and curLive tells
\* whether fileStats still has that array.  append to a full slice moves
\* the elements to a new array of twice the capacity, as the gc runtime
\* does for a slice of this size, and leaves currentFile pointing into the
\* old one.  The first token of a line decides its case, so that the
\* cases exclude each other in the order of the tests of the loop.
GitDiffLine(st, line) ==
    LET Kept == [st EXCEPT !.kept = Append(@, line)]
        Appended(s, fs) ==
            LET full == Len(s.fileStats) = s.cap IN
            [s EXCEPT !.fileStats = Append(@, fs),
                      !.cap = IF ~full THEN @ ELSE IF @ = 0 THEN 1 ELSE 2 * @,
                      !.curLive = @ /\ ~full]
        Current(s) == [s EXCEPT !.cur = Len(s.fileStats), !.curLive = TRUE]
        Stat(name, binary) == [name |-> name, insertions |-> 0,
                               deletions |-> 0, binary |-> binary]
        \* indexLineRe: ^index [0-9a-f]+\.\.[0-9a-f]+
        indexLineRe == /\ HasPrefix(line, "index ")
                       /\ Len(line) >= 4
                       /\ line[3] = ".."
        \* binaryFileRe: ^Binary files .* differ$
        binaryFileRe == /\ HasPrefix(line, "Binary files ")
                        /\ Len(line) >= 2
                        /\ line[Len(line)] = " differ"
        binaryName == binaryFileName(line)
        Counted(field) ==
            IF st.cur # 0 /\ st.curLive
              THEN [Kept EXCEPT !.fileStats[st.cur][field] = @ + 1]
              ELSE Kept
    IN  CASE HasPrefix(line, "diff --git ") -> st
          [] indexLineRe -> st
          [] binaryFileRe ->
               IF binaryName # <<>>
                 THEN Appended(Kept, Stat(binaryName, TRUE))
                 ELSE Kept
          [] HasPrefix(line, "--- a/") ->
               [Kept EXCEPT !.lastMinusFile = Tail(line)]
          [] HasPrefix(line, "+++ b/") ->
               Current(Appended(Kept, Stat(Tail(line), FALSE)))
          [] HasPrefix(line, "+++ ") ->
               IF st.lastMinusFile # <<>>
                 THEN Current(Appended(Kept, Stat(st.lastMinusFile, FALSE)))
                 ELSE Kept
          [] HasPrefix(line, "--- ") -> [Kept EXCEPT !.lastMinusFile = <<>>]
          [] HasPrefix(line, "@@ ") -> Kept
          [] HasPrefix(line, "+") -> Counted("insertions")
          [] HasPrefix(line, "-") -> Counted("deletions")
          [] OTHER -> Kept

\* The loop over the lines.  The state after a line is computed before
\* the loop goes on to the next one: the test on the capacity, which is
\* never negative, needs its value.
RECURSIVE GitDiffScan(_, _)
GitDiffScan(lines, st) ==
    IF lines = <<>> THEN st
    ELSE LET next == GitDiffLine(st, Head(lines))
         IN  IF next.cap >= 0 THEN GitDiffScan(Tail(lines), next) ELSE st

\* The line of the header for one file
GitDiffEntry(fs) ==
    IF fs.binary
      THEN <<"  ">> \o fs.name \o <<" (binary)">>
      ELSE <<"  ">> \o fs.name \o <<" (+", ToString(fs.insertions), " -",
                                    ToString(fs.deletions), ")">>

GitDiffStrategy_Filter(raw, code) ==
    LET cleaned == StripANSIString(raw)
        hadTrailing == endsWithNewline(cleaned)
        lines == cleaned
        st == GitDiffScan(lines, [fileStats |-> <<>>, cap |-> 0, cur |-> 0,
                                  curLive |-> FALSE, kept |-> <<>>,
                                  lastMinusFile |-> <<>>])
        header == <<<<"Files changed:">>>>
                    \o [i \in DOMAIN st.fileStats |->
                          GitDiffEntry(st.fileStats[i])]
                    \o << <<>> >>
        filtered == JoinLines(header \o st.kept)
    IN  IF Len(lines) < 20
          THEN Unreduced(cleaned)
          ELSE [Filtered |-> ensureTrailingNewline(filtered, hadTrailing),
                WasReduced |-> TRUE]

\* --- GoTestStrategy ---

\* A package summary line: ok, FAIL or ? followed by the package
IsPkgSummary(line) ==
    \/ HasPrefix(line, "ok  \t")
    \/ HasPrefix(line, "FAIL\t")
    \/ HasPrefix(line, "?   \t")

\* goTestRunRe: ^=== RUN\s+(\S+)
goTestRunRe(line) ==
    /\ PrefixThenSpace(line, "=== RUN")
    /\ Len(line) >= 3
    /\ line[3] \notin WhiteTokens

\* A block that is taken for a test that runs
NoBlock_Active == [active |-> TRUE, lines |-> <<>>, failed |-> FALSE]

\* currentBlock = nil
NoBlock == [active |-> FALSE, lines |-> <<>>, failed |-> FALSE]

\* One turn of the loop over the lines of go test
GoTestLine(st, line) ==
    LET cur == st.currentBlock IN
    IF IsPkgSummary(line)
      THEN [st EXCEPT !.summaryLines = Append(@, line)]
    ELSE IF line = <<"FAIL">>
      THEN [st EXCEPT !.summaryLines = Append(@, line)]
    ELSE IF goTestRunRe(line)
      THEN [st EXCEPT
              !.failBlocks = IF cur.active /\ cur.failed
                               THEN Append(@, cur.lines) ELSE @,
              !.currentBlock = [active |-> TRUE, lines |-> <<line>>,
                                failed |-> FALSE]]
    ELSE IF \/ PrefixThenSpace(line, "=== PAUSE")
            \/ PrefixThenSpace(line, "=== CONT")
      THEN st
    ELSE IF PrefixThenSpace(line, "--- PASS:")
      THEN IF cur.active THEN [st EXCEPT !.currentBlock = NoBlock] ELSE st
    ELSE IF PrefixThenSpace(line, "--- FAIL:")
      THEN IF cur.active
             THEN [st EXCEPT !.failBlocks = Append(@, Append(cur.lines, line)),
                             !.currentBlock = NoBlock]
             ELSE [st EXCEPT !.orphanedLines = Append(@, line)]
    ELSE IF cur.active
      THEN [st EXCEPT !.currentBlock.lines = Append(@, line)]
    ELSE IF ~IsBlank(line)
      THEN [st EXCEPT !.orphanedLines = Append(@, line)]
    ELSE st

RECURSIVE GoTestScan(_, _)
GoTestScan(lines, st) ==
    IF lines = <<>> THEN st
    ELSE GoTestScan(Tail(lines), GoTestLine(st, Head(lines)))

\* The lines of the blocks, one block after the other
RECURSIVE Flatten(_)
Flatten(blocks) ==
    IF blocks = <<>> THEN <<>> ELSE Head(blocks) \o Flatten(Tail(blocks))

GoTestStrategy_Filter(raw, code) ==
    LET cleaned == StripANSIString(raw)
        hadTrailing == endsWithNewline(cleaned)
        lines == cleaned
        pkgCount == Cardinality({i \in DOMAIN lines : IsPkgSummary(lines[i])})
        scanned == GoTestScan(lines, [summaryLines |-> <<>>,
                                      failBlocks |-> <<>>,
                                      currentBlock |-> NoBlock,
                                      orphanedLines |-> <<>>])
        failBlocks ==
            IF scanned.currentBlock.active /\ scanned.currentBlock.failed
              THEN Append(scanned.failBlocks, scanned.currentBlock.lines)
              ELSE scanned.failBlocks
        summaryLines == scanned.summaryLines
        passedPkgs ==
            Cardinality({i \in DOMAIN summaryLines :
                           \/ HasPrefix(summaryLines[i], "ok  \t")
                           \/ HasPrefix(summaryLines[i], "?   \t")})
        out == IF code = 0
                 THEN Append(summaryLines,
                             <<"all tests passed (", ToString(passedPkgs),
                               " packages)">>)
                 ELSE Flatten(failBlocks) \o scanned.orphanedLines
                        \o summaryLines
        filtered == ensureTrailingNewline(JoinLines(out), hadTrailing)
    IN  IF pkgCount <= 2 /\ Len(lines) < 10
          THEN Unreduced(cleaned)
          ELSE [Filtered |-> filtered,
                WasReduced |-> TextLen(filtered) < TextLen(cleaned)]

\* --- GrepGroupStrategy ---

grepMaxLinesPerFile == 8

grepHeadTail == 3

\* grepBinaryFileRe: ^Binary file .+ matches
grepBinaryFileRe(line) ==
    /\ HasPrefix(line, "Binary file ")
    /\ \E i \in 3..Len(line) : line[i] = " matches"

\* The positions of the colons that can end the file name of
\* grepFileLineRe, ^(.+?):(\d+:)?(.*)$: the name has a character at least
NameEnds(line) == {i \in 2..Len(line) : line[i] = ":"}

\* grepFileLineRe matches
grepFileLineRe(line) == NameEnds(line) # {}

\* matches[1] of grepFileLineRe: the lazy name ends at the first colon
GrepFileName(line) ==
    SubSeq(line, 1, (CHOOSE i \in NameEnds(line) :
                       \A j \in NameEnds(line) : i <= j) - 1)

\* groupIndex[filename], 0 when the file has no group yet
GroupIndex(groups, filename) ==
    IF \E i \in DOMAIN groups : groups[i].name = filename
      THEN CHOOSE i \in DOMAIN groups : groups[i].name = filename
      ELSE 0

\* One turn of the loop of parseGroups
ParseGroupsLine(st, line) ==
    IF IsBlank(line) THEN st
    ELSE IF line = <<"--">> THEN st
    ELSE IF grepBinaryFileRe(line)
      THEN [st EXCEPT !.binaryNotices = Append(@, line)]
    ELSE IF ~grepFileLineRe(line) THEN st
    ELSE LET filename == GrepFileName(line)
             idx == GroupIndex(st.groups, filename)
         IN  IF idx # 0
               THEN [st EXCEPT !.groups[idx].lines = Append(@, line)]
               ELSE [st EXCEPT !.groups =
                       Append(@, [name |-> filename, lines |-> <<line>>])]

RECURSIVE parseGroups(_, _)
parseGroups(lines, st) ==
    IF lines = <<>> THEN st
    ELSE parseGroups(Tail(lines), ParseGroupsLine(st, Head(lines)))

\* "  " + line
Indented(line) == <<"  ">> \o line

\* The header of a group and its matches, all of them or the first three,
\* the number of the omitted ones and the last three
GroupOutput(grp) ==
    LET matchCount == Len(grp.lines)
        matchWord == IF matchCount = 1 THEN "match" ELSE "matches"
        header == grp.name \o <<" (", ToString(matchCount), " ", matchWord,
                               "):">>
    IN  IF matchCount <= grepMaxLinesPerFile
          THEN <<header>> \o [i \in 1..matchCount |-> Indented(grp.lines[i])]
          ELSE <<header>>
               \o [i \in 1..grepHeadTail |-> Indented(grp.lines[i])]
               \o << <<"  ... ", ToString(matchCount - grepHeadTail * 2),
                       " more">> >>
               \o [i \in 1..grepHeadTail |->
                     Indented(grp.lines[matchCount - grepHeadTail + i])]

RECURSIVE GroupsOutput(_)
GroupsOutput(groups) ==
    IF groups = <<>> THEN <<>>
    ELSE GroupOutput(Head(groups)) \o GroupsOutput(Tail(groups))

RECURSIVE TotalMatches(_)
TotalMatches(groups) ==
    IF groups = <<>> THEN 0
    ELSE Len(Head(groups).lines) + TotalMatches(Tail(groups))

GrepGroupStrategy_Filter(raw, code) ==
    LET cleaned == StripANSIString(raw)
        hadTrailing == endsWithNewline(cleaned)
        lines == cleaned
        parsed == parseGroups(lines, [groups |-> <<>>, binaryNotices |-> <<>>])
        groups == parsed.groups
        totalMatches == TotalMatches(groups)
        fileCount == Len(groups)
        matchWord == IF totalMatches = 1 THEN "match" ELSE "matches"
        fileWord == IF fileCount = 1 THEN "file" ELSE "files"
        output == GroupsOutput(groups) \o parsed.binaryNotices
                    \o << <<>>,
                          <<ToString(totalMatches), " ", matchWord,
                            " across ", ToString(fileCount), " ", fileWord>> >>
        filtered == ensureTrailingNewline(JoinLines(output), hadTrailing)
    IN  IF Len(lines) < 10 THEN Unreduced(cleaned)
        ELSE IF code # 0 THEN Unreduced(cleaned)
        ELSE IF Len(groups) = 0 THEN Unreduced(cleaned)
        ELSE [Filtered |-> filtered,
              WasReduced |-> TextLen(filtered) < TextLen(cleaned)]

\* --- the deferred recover of each Filter ---

\* What Filter gives back and what it writes to os.Stderr
Outcome(res, notes) == [result |-> res, stderr |-> notes]

\* "coc: filter %s recovered from panic: %v\n", without the panic value
PanicNote(filterName) == <<"coc: filter ", filterName, " recovered from panic">>

GitStatusStrategy_Recover(raw) ==
    Outcome(Unreduced(raw), <<PanicNote("git-status")>>)

GitDiffStrategy_Recover(raw) ==
    Outcome(Unreduced(raw), <<PanicNote("git-diff")>>)

GitLogStrategy_Recover(raw) ==
    Outcome(Unreduced(raw), <<PanicNote("git-log")>>)

GoTestStrategy_Recover(raw) ==
    Outcome(Unreduced(raw), <<PanicNote("go-test")>>)

GoBuildStrategy_Recover(raw) ==
    Outcome(Unreduced(raw), <<PanicNote("go-build")>>)

CargoTestStrategy_Recover(raw) ==
    Outcome(Unreduced(raw), <<PanicNote("cargo-test")>>)

CargoBuildStrategy_Recover(raw) ==
    Outcome(Unreduced(raw), <<PanicNote("cargo-build")>>)

DockerBuildStrategy_Recover(raw) ==
    Outcome(Unreduced(raw), <<PanicNote("docker-build")>>)

GrepGroupStrategy_Recover(raw) ==
    Outcome(Unreduced(raw), <<PanicNote("grep-group")>>)

ProgressStripStrategy_Recover(raw) ==
    Outcome(Unreduced(raw), <<PanicNote("progress-strip")>>)

\* GenericErrorStrategy sets the result and writes nothing
GenericErrorStrategy_Recover(raw) == Outcome(Unreduced(raw), <<>>)

\* The outcome of strategy.Filter when its body panics
Recover(name, raw) ==
    CASE name = "git-status" -> GitStatusStrategy_Recover(raw)
      [] name = "git-diff" -> GitDiffStrategy_Recover(raw)
      [] name = "git-log" -> GitLogStrategy_Recover(raw)
      [] name = "go-test" -> GoTestStrategy_Recover(raw)
      [] name = "go-build" -> GoBuildStrategy_Recover(raw)
      [] name = "cargo-test" -> CargoTestStrategy_Recover(raw)
      [] name = "cargo-build" -> CargoBuildStrategy_Recover(raw)
      [] name = "docker-build" -> DockerBuildStrategy_Recover(raw)
      [] name = "grep-group" -> GrepGroupStrategy_Recover(raw)
      [] name = "progress-strip" -> ProgressStripStrategy_Recover(raw)
      [] name = "generic-error" -> GenericErrorStrategy_Recover(raw)

\* The result of strategy.Filter when its body runs to its end
FilterBody(name, raw, code) ==
    CASE name = "passthrough" -> PassthroughStrategy_Filter(raw, code)
      [] name = "git-status" -> GitStatusStrategy_Filter(raw, code)
      [] name = "git-diff" -> GitDiffStrategy_Filter(raw, code)
      [] name = "go-test" -> GoTestStrategy_Filter(raw, code)
      [] name = "grep-group" -> GrepGroupStrategy_Filter(raw, code)

\* strategy.Filter(raw, command, args, code); panics tells whether the
\* body of the strategy panics on its way
Filter(name, raw, code, panics) ==
    IF panics
      THEN Recover(name, raw)
      ELSE Outcome(FilterBody(name, raw, code), <<>>)

FilterCall ==
    Returns("Filter", Filter(call.in.strategy, call.in.raw,
                             call.in.exitCode, call.in.panics))

\* n lines equal to line
Repeat(line, n) == [i \in 1..n |-> line]

\* The text of the lines, ended by a newline or not
TextOf(lines, nl) ==
    IF nl THEN Append(lines, <<>>)
    ELSE IF lines = <<>> THEN << <<>> >> ELSE lines

\* The texts of up to MaxLines lines: some lines equal to one line of the
\* vocabulary, then some equal to another
TextsOver(vocabulary) ==
    {TextOf(Repeat(a, k) \o Repeat(b, n - k), nl) :
       <<a, b, nl>> \in vocabulary \X vocabulary \X BOOLEAN,
       <<n, k>> \in {p \in (0..MaxLines) \X (0..MaxLines) : p[2] <= p[1]}}

\* Lines of git status
GitStatusLines ==
    { <<"On branch ", "main">>,
      <<"Changes to be committed:">>,
      <<"Changes not staged for commit:">>,
      <<"Untracked files:">>,
      <<"  (use \"git", " add <file>...\" to update what will be committed)">>,
      <<"\t", "modified:", "   ", "a.go">>,
      <<"\t", "\\x1b[31m", "new file:", "   ", "b.go", "\\x1b[0m">>,
      <<"\t", "c.go">>,
      <<>>,
      <<"no changes added to commit">>,
      <<"nothing to commit, working tree clean">> }

\* Lines of go test -v
GoTestLines ==
    { <<"ok  \t", "example.com/a", "\t", "0.01s">>,
      <<"FAIL\t", "example.com/b", "\t", "0.02s">>,
      <<"?   \t", "example.com/c", "\t", "[no test files]">>,
      <<"FAIL">>,
      <<"=== RUN", "   ", "TestA">>,
      <<"=== PAUSE", " ", "TestA">>,
      <<"--- PASS:", " ", "TestA", " (0.00s)">>,
      <<"--- FAIL:", " ", "TestA", " (0.00s)">>,
      <<"    ", "a_test.go", ":", "10", ":", " ", "got 1">>,
      <<>> }

\* Lines of grep -n and of grep
GrepLines ==
    { <<"a.go", ":", "12", ":", "x">>,
      <<"b.go", ":", "x := 1">>,
      <<"Binary file ", "a.png", " matches">>,
      <<"--">>,
      <<"no separator">>,
      <<"\\x1b[31m", "c.go", "\\x1b[0m", ":", "7", ":", "y">>,
      <<>> }

\* The strategies of the default registry whose Filter defers a recover
RecoveringStrategies ==
    {DefaultRegistry[i] : i \in DOMAIN DefaultRegistry}

\* Lines of git status for the texts of MaxScript lines
GitStatusScriptLines ==
    { <<"Changes to be committed:">>,
      <<"Changes not staged for commit:">>,
      <<"Untracked files:">>,
      <<"\t", "modified:", "   ", "a.go">>,
      <<"\t", "c.go">>,
      <<"Unmerged paths:">> }

\* Lines of go test -v for the texts of MaxScript lines
GoTestScriptLines ==
    { <<"=== RUN", "   ", "TestA">>,
      <<"=== RUN", "   ", "TestB">>,
      <<"=== PAUSE", " ", "TestA">>,
      <<"--- PASS:", " ", "TestA", " (0.00s)">>,
      <<"--- FAIL:", " ", "TestB", " (0.00s)">>,
      <<"    ", "a_test.go", ":", "10", ":", " ", "got 1">>,
      <<"FAIL">> }

\* Three package summary lines: more than the two of a small output
GoTestSummaries ==
    << <<"ok  \t", "example.com/a", "\t", "0.01s">>,
       <<"FAIL\t", "example.com/b", "\t", "0.02s">>,
       <<"?   \t", "example.com/c", "\t", "[no test files]">> >>

\* Lines of git diff for the texts of MaxScript lines
GitDiffScriptLines ==
    { <<"diff --git ", "a/a.go b/a.go">>,
      <<"--- a/", "c.go">>,
      <<"+++ b/", "a.go">>,
      <<"+++ b/", "b.go">>,
      <<"+++ ", "/dev/null">>,
      <<"+", "x">>,
      <<"-", "y">>,
      <<"Binary files ", "a/", "p.png", " and ", "b/", "p.png", " differ">>,
      <<"Binary files ", "/dev/null", " and ", "b/", "q.png", " differ">> }

\* Context lines of git diff that make a text of 20 lines with one more
DiffContext == Repeat(<<" ", "ctx">>, 19)

\* The texts of n lines of the vocabulary, followed by the lines of
\* padding
ScriptsOver(n, vocabulary, padding) ==
    {TextOf(s \o padding, nl) :
       <<s, nl>> \in [1..n -> vocabulary] \X BOOLEAN}

\* The calls of Filter: every text over the lines of the command with the
\* bodies that are modelled, the texts of n mixed lines among them, and a
\* panic in every strategy that recovers
FilterInputs(n) ==
    [strategy : {"git-status"},
     raw : TextsOver(GitStatusLines) \cup ScriptsOver(n, GitStatusScriptLines, <<>>),
     exitCode : {0}, panics : {FALSE}]
    \cup [strategy : {"git-diff"},
          raw : ScriptsOver(n, GitDiffScriptLines, DiffContext)
                  \cup {TextOf(Repeat(<<"+", "x">>, k), TRUE) : k \in 18..20},
          exitCode : {0}, panics : {FALSE}]
    \cup [strategy : {"go-test"},
          raw : TextsOver(GoTestLines)
                  \cup ScriptsOver(n, GoTestScriptLines, GoTestSummaries),
          exitCode : {0, 1}, panics : {FALSE}]
    \cup [strategy : {"grep-group"}, raw : TextsOver(GrepLines),
          exitCode : {0, 1}, panics : {FALSE}]
    \cup [strategy : {"passthrough"},
          raw : {TextOf(Repeat(a, k), TRUE) :
                   <<a, k>> \in GrepLines \X (0..2)},
          exitCode : {0, 1}, panics : {FALSE}]
    \cup [strategy : RecoveringStrategies,
          raw : {TextOf(Repeat(a, k), TRUE) :
                   <<a, k>> \in GrepLines \X (0..2)},
          exitCode : {0, 1}, panics : {TRUE}]

\* ------------------------------------------------------------------------
\* The hook.  A command is a sequence of tokens: words, runs of white
\* space and shell operators.
\* ------------------------------------------------------------------------

\* The backtick
Backtick == "\\x60"

\* The tokens of white space
HookWhite == {" ", "\t"}

\* The tokens joined into one string
RECURSIVE Concat(_)
Concat(tokens) ==
    IF tokens = <<>> THEN "" ELSE Head(tokens) \o Concat(Tail(tokens))

\* strings.TrimSpace
TrimSpace(cmd) ==
    LET black == {i \in DOMAIN cmd : cmd[i] \notin HookWhite} IN
    IF black = {} THEN <<>>
    ELSE SubSeq(cmd, CHOOSE i \in black : \A j \in black : i <= j,
                     CHOOSE i \in black : \A j \in black : j <= i)

\* containsShellOps that does not look for the chains
containsShellOps_PipesOnly(cmd) ==
    \E i \in DOMAIN cmd : cmd[i] \in {"|", "||"}

\* containsShellOps: "||" holds "|", and two "&" side by side are "&&"
containsShellOps(cmd) ==
    \/ \E i \in DOMAIN cmd : cmd[i] \in {"|", "||"}
    \/ \E i \in DOMAIN cmd :
          \/ cmd[i] = "&&"
          \/ cmd[i] = "&" /\ i < Len(cmd) /\ cmd[i + 1] = "&"
    \/ \E i \in DOMAIN cmd : cmd[i] = "||"
    \/ \E i \in DOMAIN cmd : cmd[i] = ";"
    \/ \E i \in DOMAIN cmd : cmd[i] = "$("
    \/ \E i \in DOMAIN cmd : cmd[i] = Backtick

\* extractFirstWord: the first of strings.Fields(cmd), "" when there is none
extractFirstWord(cmd) ==
    LET black == {i \in DOMAIN cmd : cmd[i] \notin HookWhite} IN
    IF black = {} THEN ""
    ELSE LET first == CHOOSE i \in black : \A j \in black : i <= j
             after == {i \in first..Len(cmd) : cmd[i] \in HookWhite}
             end == IF after = {} THEN Len(cmd)
                    ELSE (CHOOSE i \in after : \A j \in after : i <= j) - 1
         IN  Concat(SubSeq(cmd, first, end))

\* isSupportedCommand
isSupportedCommand(cmd) == cmd \in cocSupportedCommands

\* What the hook has written to stdout
NoOutput == [kind |-> "none", command |-> <<>>]

\* runHook: in.read and in.json tell whether stdin could be read and
\* parsed, in.write how much of the output stdout takes.  The error
\* returned is nil on every path: the exit code is 0.
runHook(in) ==
    LET command == TrimSpace(in.command)
        firstWord == extractFirstWord(command)
        output == [kind |-> "rewrite", hookEventName |-> "PreToolUse",
                   permissionDecision |-> "allow",
                   command |-> <<"coc", " ">> \o command]
        stdout ==
            IF in.read # "ok" THEN NoOutput
            ELSE IF in.json # "ok" THEN NoOutput
            ELSE IF in.tool_name # "Bash" THEN NoOutput
            ELSE IF command = <<>> THEN NoOutput
            ELSE IF containsShellOps(command) THEN NoOutput
            ELSE IF firstWord = "" THEN NoOutput
            ELSE IF firstWord = "coc" THEN NoOutput
            ELSE IF ~isSupportedCommand(firstWord) THEN NoOutput
            ELSE IF in.write = "all" THEN output
            ELSE IF in.write = "part"
              THEN [kind |-> "partial", command |-> <<>>]
              ELSE NoOutput
    IN  [stdout |-> stdout, exit |-> 0]

HookCall == Returns("runHook", runHook(call.in))

\* The command of a rewrite is given to the hook again
HookFeedBack ==
    /\ call.fn = "runHook"
    /\ call.done
    /\ call.out.stdout.kind = "rewrite"
    /\ ~call.in.fedBack
    /\ call' = [fn |-> "runHook",
                in |-> [call.in EXCEPT !.command = call.out.stdout.command,
                                       !.fedBack = TRUE],
                out |-> <<>>, done |-> FALSE]
    /\ UNCHANGED runVars

\* The tokens of the commands
CommandTokens ==
    HookWhite \cup {"git", "rg", "coc", "cocaine", "make", "status", "&",
                    "|", "||", "&&", ";", "$(", Backtick}

\* The commands of at most MaxCommandTokens tokens
HookCommands == UNION {[1..n -> CommandTokens] : n \in 0..MaxCommandTokens}

\* The calls of the hook: every command in a call that is read and parsed,
\* and a command that would be wrapped on stdin that cannot be read or is
\* not JSON
HookInputs ==
    [read : {"ok"}, json : {"ok"}, tool_name : {"Bash", "Read"},
     command : HookCommands, write : {"all", "part", "nothing"},
     fedBack : {FALSE}]
    \cup [read : {"ok", "error"}, json : {"ok", "malformed"},
          tool_name : {"Bash"}, command : {<<"git", " ", "status">>},
          write : {"all"}, fedBack : {FALSE}]

\* ------------------------------------------------------------------------
\* The settings.  A settings object has the key "model" or not, and the
\* key "hooks" or not; hooks has the key "PostToolUse" or not, and
\* PreToolUse absent, null or an array of matcher entries.
\* ------------------------------------------------------------------------

\* The hook that init installs
CocHook == [type |-> "command", command |-> "coc hook"]

\* The matcher entry that init appends
CocEntry == [matcher |-> "Bash", hooks |-> <<CocHook>>]

\* hType == "command" and cmd == "coc hook"
IsCocHook(h) == h.type = "command" /\ h.command = "coc hook"
IsOtherHook(h) == ~IsCocHook(h)

\* settings without the key "hooks" get an empty object for it
HooksMap(settings) ==
    IF settings.hooks.kind = "object" THEN settings.hooks
    ELSE [kind |-> "object", PostToolUse |-> FALSE,
          PreToolUse |-> [kind |-> "absent", items |-> <<>>]]

\* addHookToSettings on a parsed object; the result is what MarshalIndent
\* writes
addHookToSettings(settings) ==
    LET hooksMap == HooksMap(settings)
        preToolUse == IF hooksMap.PreToolUse.kind = "array"
                        THEN hooksMap.PreToolUse.items ELSE <<>>
        exists == \E i \in DOMAIN preToolUse :
                     /\ preToolUse[i].matcher = "Bash"
                     /\ \E j \in DOMAIN preToolUse[i].hooks :
                           IsCocHook(preToolUse[i].hooks[j])
    IN  IF exists THEN settings
        ELSE [settings EXCEPT
                !.hooks = [hooksMap EXCEPT
                             !.PreToolUse =
                                [kind |-> "array",
                                 items |-> Append(preToolUse, CocEntry)]]]

\* The loop of removeHookFromSettings over the matcher entries: a nil
\* slice that nothing is appended to is written as null
RECURSIVE RemoveFrom(_, _)
RemoveFrom(preToolUse, st) ==
    IF preToolUse = <<>> THEN st
    ELSE LET hook == Head(preToolUse)
             newHooksArr == SelectSeq(hook.hooks, IsOtherHook)
             found == st.found \/ \E j \in DOMAIN hook.hooks :
                                     IsCocHook(hook.hooks[j])
             kept == IF hook.matcher # "Bash"
                       THEN <<hook>>
                     ELSE IF newHooksArr # <<>>
                       THEN <<[hook EXCEPT !.hooks = newHooksArr]>>
                       ELSE <<>>
         IN  RemoveFrom(Tail(preToolUse),
                        [found |-> IF hook.matcher = "Bash" THEN found
                                   ELSE st.found,
                         new |-> st.new \o kept])

\* removeHookFromSettings on a parsed object
removeHookFromSettings(settings) ==
    IF settings.hooks.kind # "object"
      THEN [settings |-> settings, removed |-> FALSE]
    ELSE IF settings.hooks.PreToolUse.kind # "array"
      THEN [settings |-> settings, removed |-> FALSE]
    ELSE LET st == RemoveFrom(settings.hooks.PreToolUse.items,
                              [found |-> FALSE, new |-> <<>>])
             newPreToolUse ==
                 IF st.new = <<>> THEN [kind |-> "null", items |-> <<>>]
                 ELSE [kind |-> "array", items |-> st.new]
         IN  [settings |-> [settings EXCEPT !.hooks.PreToolUse = newPreToolUse],
              removed |-> st.found]

\* The coc hooks of the settings: the hooks "coc hook" of the Bash entries
CocHooks(settings) ==
    IF settings.hooks.kind # "object" \/ settings.hooks.PreToolUse.kind # "array"
      THEN {}
      ELSE LET items == settings.hooks.PreToolUse.items IN
           {<<i, j>> \in (DOMAIN items) \X (1..MaxHooks + 1) :
              /\ j \in DOMAIN items[i].hooks
              /\ items[i].matcher = "Bash"
              /\ IsCocHook(items[i].hooks[j])}

\* init on the settings: the state is the settings now, the settings
\* before the last operation, that operation and what it reported
AddHook ==
    /\ call.fn = "init"
    /\ call.out.ops < MaxOps
    /\ call' = [call EXCEPT
                  !.out = [settings |-> addHookToSettings(call.out.settings),
                           before |-> call.out.settings,
                           last |-> "add", removed |-> FALSE,
                           ops |-> call.out.ops + 1]]
    /\ UNCHANGED runVars

RemoveHook ==
    /\ call.fn = "init"
    /\ call.out.ops < MaxOps
    /\ LET res == removeHookFromSettings(call.out.settings) IN
       call' = [call EXCEPT
                  !.out = [settings |-> res.settings,
                           before |-> call.out.settings,
                           last |-> "remove", removed |-> res.removed,
                           ops |-> call.out.ops + 1]]
    /\ UNCHANGED runVars

\* The hooks of an entry, the entries of PreToolUse and the settings that
\* the operations start from: those with at most one coc hook
HookLists ==
    UNION {[1..n -> {CocHook, [type |-> "command", command |-> "lint"]}] :
             n \in 0..MaxHooks}

EntryLists(hookLists) ==
    UNION {[1..n -> [matcher : {"Bash", "Edit"}, hooks : hookLists]] :
             n \in 0..MaxEntries}

SettingsOver(entryLists) ==
    {s \in [model : BOOLEAN,
            hooks : [kind : {"absent"}, PostToolUse : {FALSE},
                     PreToolUse : {[kind |-> "absent", items |-> <<>>]}]
                    \cup [kind : {"object"}, PostToolUse : BOOLEAN,
                          PreToolUse :
                              {[kind |-> "absent", items |-> <<>>]}
                              \cup [kind : {"array"}, items : entryLists]]] :
       Cardinality(CocHooks(s)) <= 1}

\* ------------------------------------------------------------------------
\* Properties of Run
\* ------------------------------------------------------------------------

Returned == pc = "returned"

\* Run has called strategy.Filter and then written to os.Stdout
Filtered == termOut # <<>>

\* The write of the filtered text to os.Stdout succeeded
StdoutWritten == termOut # <<>> /\ termOut[1].ok

\* The log file was created at the start of Run
LogCreated == handle # "none"

FooterWritten == Footer \in Range(termErr)

\* C1: the exit code Run returns is the child's exit status if the child
\* exited, 128+N if signal N terminated it, 127 if the command was not
\* found and 1 for another failure before the child started, whatever else
\* failed inside the supervisor.
C1_ExitCodePreserved ==
    Returned =>
      /\ childEnd.kind = "exited" => ret.ExitCode = childEnd.v
      /\ childEnd.kind = "signaled" => ret.ExitCode = 128 + childEnd.v
      /\ childEnd.kind = "notFound" => ret.ExitCode = 127
      /\ childEnd.kind \in {"otherError", "stdoutPipeFailed", "stderrPipeFailed"}
           => ret.ExitCode = 1

\* A signaled child after a pump copy error, with the stdout write failing
C1_Witness ==
    /\ Returned
    /\ childEnd.kind = "signaled"
    /\ stderrCopyErr
    /\ Filtered /\ ~termOut[1].ok

\* C2: when the text written to stdout is a reduced filter result, the log
\* file exists at the return of Run and holds the complete stdout of the
\* child.
C2_ReducedOnlyWithLog ==
    (Returned /\ StdoutWritten /\ result.WasReduced)
      => (onDisk /\ OfStream(logContent, "out") = ChildStdout)

\* C3, as claimed: on every return that follows the filter call, the footer
\* was written iff WasReduced and the returned log path is not empty.
C3_FooterIffReducedAndPath ==
    (Returned /\ Filtered)
      => (FooterWritten <=> (result.WasReduced /\ ret.LogPath # ""))

\* C3, amended: the footer is written iff WasReduced, the returned log
\* path is not empty and the write of the filtered text to stdout succeeded;
\* it is never written before that write.
C3_FooterIffReducedPathAndWritten ==
    /\ FooterWritten => (Returned /\ Filtered)
    /\ (Returned /\ Filtered)
         => (FooterWritten
               <=> (result.WasReduced /\ ret.LogPath # "" /\ StdoutWritten))

C3_Witness == Returned /\ FooterWritten /\ onDisk

\* C4: at the return of Run the returned log path is non-empty iff the log
\* file of this invocation exists.
C4_LogPathIffLogExists ==
    Returned => ((ret.LogPath # "") <=> onDisk)

\* C5, as claimed: with a log created, an unreduced output of at most 4096
\* bytes leaves no log file and an empty log path; a larger or a reduced
\* output keeps the log and returns its path.
C5_SmallOutputCleanup ==
    (Returned /\ LogCreated /\ Filtered)
      => /\ (~result.WasReduced /\ ByteLen(stdoutBuf) <= smallOutputThreshold)
              => (~onDisk /\ ret.LogPath = "")
         /\ (result.WasReduced \/ ByteLen(stdoutBuf) > smallOutputThreshold)
              => (onDisk /\ ret.LogPath = ResolvedPath)

\* C5, amended: with a log created and the filtered text written to stdout
\* without error, an unreduced output of at most 4096 bytes has its log
\* closed and os.Remove called on it, the returned log path is empty, and
\* the file is gone if os.Remove succeeded; a larger or a reduced output,
\* or a failed stdout write, keeps the log and returns its path.
C5_SmallOutputCleanupWhenWritten ==
    (Returned /\ LogCreated /\ Filtered)
      => /\ (~result.WasReduced /\ ByteLen(stdoutBuf) <= smallOutputThreshold
               /\ StdoutWritten)
              => /\ ret.LogPath = ""
                 /\ handle = "closed"
                 /\ removeErr # "none"
                 /\ removeErr = "nil" => ~onDisk
         /\ (result.WasReduced \/ ByteLen(stdoutBuf) > smallOutputThreshold
               \/ ~StdoutWritten)
              => (onDisk /\ ret.LogPath = ResolvedPath /\ removeErr = "none")

\* An unreduced output of exactly 4096 bytes whose log was removed
C5_Witness ==
    /\ Returned /\ LogCreated /\ StdoutWritten
    /\ ~result.WasReduced
    /\ ByteLen(stdoutBuf) = smallOutputThreshold
    /\ ~onDisk /\ ret.LogPath = ""

ChildBlockedForever ==
    /\ childState = "running"
    /\ outIdx < Len(outAll) \/ errIdx < Len(errAll)
    /\ outIdx < Len(outAll) => (Len(outPipe) >= pipeCap /\ outPump = "done")
    /\ errIdx < Len(errAll) => (Len(errPipe) >= pipeCap /\ errPump = "done")

\* C7: a child that writes more than the pipe capacity to stdout and to
\* stderr and then exits is never blocked forever, and when Run returns the
\* log holds every byte of both streams.
C7_NeverBlockedAllLogged ==
    (Len(outAll) > pipeCap /\ Len(errAll) > pipeCap)
      => /\ ~ChildBlockedForever
         /\ (Returned /\ LogCreated /\ childEnd.kind = "exited")
              => /\ OfStream(logContent, "out") = outAll
                 /\ OfStream(logContent, "err") = errAll

\* The last block of a sequence belongs to stream st
LastOf(s, st) == s # <<>> /\ s[Len(s)].s = st

\* While a pump is inside sw.w.Write it holds the mutex, and the two pumps
\* are never inside it together
MutualExclusion ==
    /\ ~(outPump = "write" /\ errPump = "write")
    /\ outPump = "write" <=> mu = "out"
    /\ errPump = "write" <=> mu = "err"

\* In the log the blocks of each stream are the first blocks the child
\* wrote to that stream, in order, and all of them once the pump of the
\* stream has ended without a write error
StreamsInOrder ==
    /\ IsPrefix(OfStream(logContent, "out"), ChildStdout)
    /\ IsPrefix(OfStream(logContent, "err"), ChildStderr)
    /\ Len(logContent) = Len(OfStream(logContent, "out"))
                           + Len(OfStream(logContent, "err"))
    /\ (LogCreated /\ outPump = "done" /\ ~stdoutCopyErr)
         => OfStream(logContent, "out") = ChildStdout
    /\ (LogCreated /\ errPump = "done" /\ ~stderrCopyErr)
         => OfStream(logContent, "err") = ChildStderr

\* Every block that reaches the log while a pump is inside a Write call is
\* a block of that call, so the blocks of a call are contiguous in the log
WritesContiguous ==
    logContent' # logContent
      => /\ Len(logContent') = Len(logContent) + 1
         /\ outPump = "write" => LastOf(logContent', "out")
         /\ errPump = "write" => LastOf(logContent', "err")

C9_StderrReachesTerminal ==
    /\ IsPrefix(OfStream(termErr, "err"), ChildStderr)
    /\ (Returned /\ childEnd.kind \in {"exited", "signaled", "waitError"})
         => OfStream(termErr, "err") = ChildStderr

\* C10: Run writes the filter result to os.Stdout once, after both pumps
\* have ended, the child is reaped and the filter has returned, and it
\* reads stdoutBuf only when the stdout pump has ended.
C10_StdoutOnceAfterJoin ==
    /\ Len(termOut) <= 1
    /\ Filtered
         => /\ outPump = "done" /\ errPump = "done"
            /\ childState = "reaped"
            /\ result \in FilterResults(strategy, stdoutBuf)
            /\ termOut[1].text = result.Filtered
    /\ pc \in {"filter", "writeStdout", "cleanup"} => outPump = "done"
    /\ pc \in {"cleanup", "close", "footer"} => StdoutWritten
    /\ (Returned /\ childEnd.kind \in {"exited", "signaled", "waitError"})
         => Len(termOut) = 1

\* Pass-through of a three-block output, written after the join
C10_Witness ==
    /\ Returned
    /\ StdoutWritten
    /\ Len(outAll) = MaxBlocks
    /\ termOut[1].text = outAll

\* C13: after a failed write to the log, Run goes on: the child is never
\* blocked forever, the accumulator receives all of the child's stdout,
\* and when Run returns the text given to the filter and written to the
\* terminal comes from the whole stdout and the exit code is the child's.
C13_LogWriteFailureTolerated ==
    (stdoutCopyErr \/ stderrCopyErr)
      => /\ ~ChildBlockedForever
         /\ outPump = "done" => stdoutBuf = ChildStdout
         /\ (Returned /\ childEnd.kind = "exited")
              => /\ stdoutBuf = outAll
                 /\ result \in FilterResults(strategy, outAll)
                 /\ ret.ExitCode = childEnd.v

\* ------------------------------------------------------------------------
\* Properties of the signal forwarding
\* ------------------------------------------------------------------------

\* C11: from the start of the child to the return of Run the handler for
\* SIGINT, SIGTERM and SIGQUIT is installed, so none of these signals takes
\* its default action on the supervisor once the child was started.
C11_HandlerInstalledWhileChildRuns ==
    /\ (childState # "unstarted" /\ pc \notin {"returned", "killed"})
         => handler = "installed"
    /\ pc = "killed" => childState = "unstarted"

\* C12: while the child runs, every signal that reached the installed
\* handler is forwarded to the child with its number, in order: once the
\* channel is empty and the goroutine idle, the Signal calls made are the
\* signals that arrived.
C12_EverySignalForwarded ==
    (childState = "running" /\ sigCh = <<>> /\ fwdSig = 0)
      => delivered = arrived

\* ------------------------------------------------------------------------
\* The specifications and the properties of the pure functions
\* ------------------------------------------------------------------------

\* A call of fn on an input of the set inputs, not yet returned
Calls(fn, inputs) == [fn : {fn}, in : inputs, out : {<<>>}, done : {FALSE}]

\* Find on the mock registries
FindInit ==
    /\ RunIdle
    /\ call \in Calls("Find", MockRegistries)

FindNext ==
    \/ FindCall

FindSpec == FindInit /\ [][FindNext]_vars

\* A call of fn has returned
Returned_(fn) == call.fn = fn /\ call.done

\* C14: Find returns the first strategy in registration order whose
\* CanHandle is true, and the fallback exactly when no registered strategy
\* matches.
C14_FindFirstMatch ==
    Returned_("Find")
      => LET can == call.in
             i == call.out
         IN  /\ i \in 0..Len(can)
             /\ i # Fallback => (can[i] /\ \A j \in 1..(i - 1) : ~can[j])
             /\ i = Fallback <=> (\A j \in 1..Len(can) : ~can[j])

\* Two strategies match and the first of them is not the first registered
C14_Witness ==
    /\ Returned_("Find")
    /\ call.in = <<FALSE, TRUE, FALSE, TRUE>>
    /\ call.out = 2

\* Find of the default registry on the command lines
DefaultInit ==
    /\ RunIdle
    /\ call \in Calls("DefaultFind", CommandLines)

DefaultNext ==
    \/ DefaultFindCall

DefaultSpec == DefaultInit /\ [][DefaultNext]_vars

\* The strategies of the default registry that are specific to a command
SpecificStrategies == Range(DefaultRegistry) \ {"generic-error"}

AnsiInit ==
    /\ RunIdle
    /\ call \in Calls("StripANSI", AnsiTexts)

AnsiNext ==
    \/ StripANSICall

AnsiSpec == AnsiInit /\ [][AnsiNext]_vars

\* C17: stripping the result of StripANSI again changes nothing.
C17_StripANSIIdempotent ==
    Returned_("StripANSI") => StripANSI(call.out) = call.out

\* Slug and Resolve on the commands and arguments
PathInit ==
    /\ RunIdle
    /\ \/ call \in Calls("Slug", SlugInputs)
       \/ call \in Calls("Resolve", ResolveInputs)

PathNext ==
    \/ SlugCall
    \/ ResolveCall

PathSpec == PathInit /\ [][PathNext]_vars

\* C19: Resolve returns base/slug/session.log: the elements of the base
\* directory, then one element that is the slug, then the file.
C19_ResolveTwoLevelsBelowBase ==
    Returned_("Resolve")
      => LET base == JoinPath(<<baseDir(call.in.flagDir, call.in.envDir,
                                        call.in.tempDir)>>)
             slug == Slug(call.in.command, call.in.args)
         IN  call.out = base \o <<slug>> \o <<SessionFile>>

\* C20: the slug has no separator, no backslash, no white space and at
\* most 64 bytes.
C20_SlugSafeAndShort ==
    Returned_("Slug")
      => /\ \A i \in DOMAIN call.out : call.out[i] \notin {"/", "\\", " "}
         /\ Len(call.out) <= 64

\* A command and an argument longer than 64 bytes together, cut to 64
C20_Witness ==
    /\ Returned_("Slug")
    /\ call.in.command = Letters(slugMaxLen - 2)
    /\ call.in.args = <<Letters(slugMaxLen + 6)>>
    /\ Len(call.out) = 64
    /\ call.out[slugMaxLen - 1] = "-"

\* Filter on the texts of the commands
FilterInit ==
    /\ RunIdle
    /\ call \in Calls("Filter", FilterInputs(MaxScript))

FilterNext ==
    \/ FilterCall

FilterSpec == FilterInit /\ [][FilterNext]_vars

\* C16: when the body of Filter panics, the strategy returns the raw input
\* with WasReduced = false and writes the note "coc: filter NAME recovered
\* from panic" to stderr.
C16_PanicRecoveredAndNoted ==
    (Returned_("Filter") /\ call.in.panics)
      => /\ call.out.result = [Filtered |-> call.in.raw, WasReduced |-> FALSE]
         /\ call.out.stderr = << <<"coc: filter ", call.in.strategy,
                                   " recovered from panic">> >>

\* C18: a strategy with a small-input threshold T returns an input without
\* escape sequences and with fewer than T lines unchanged, with
\* WasReduced = false, when the exit code is 0.  An input of n lines that
\* each end with a newline has n lines.
C18_SmallInputPassesThrough ==
    LET threshold == [s \in {"git-status"} |-> 5]
                       @@ [s \in {"git-diff"} |-> 20]
                       @@ [s \in {"docker-build"} |-> 15]
                       @@ [s \in {"go-test", "cargo-test", "grep-group",
                                  "progress-strip"} |-> 10]
        raw == call.in.raw
        lineCount == IF raw[Len(raw)] = <<>> THEN Len(raw) - 1 ELSE Len(raw)
        noAnsi == \A i \in DOMAIN raw : \A j \in DOMAIN raw[i] :
                     raw[i][j] \notin AnsiTokens
    IN  (/\ Returned_("Filter")
         /\ ~call.in.panics
         /\ call.in.strategy \in DOMAIN threshold
         /\ call.in.exitCode = 0
         /\ noAnsi
         /\ lineCount < threshold[call.in.strategy])
          => call.out.result = [Filtered |-> raw, WasReduced |-> FALSE]

\* ------------------------------------------------------------------------
\* Properties of the log file handle
\* ------------------------------------------------------------------------

\* The log file is not written in this step
LogUntouched == logContent' = logContent

\* C25: a log file handle that was opened is closed exactly once on every
\* path through Run; it is closed only when both pumps have finished or
\* were never started, nothing is written to the file after the close, and
\* the file is unlinked only after the close.
C25_LogClosedExactlyOnce ==
    /\ [](/\ closes <= 1
          /\ handle = "none" => closes = 0
          /\ Returned => (handle # "none" => handle = "closed" /\ closes = 1)
          /\ handle = "closed"
               => \/ outPump = "idle" /\ errPump = "idle"
                  \/ outPump = "done" /\ errPump = "done"
          /\ removeErr # "none" => handle = "closed")
    /\ [][handle = "closed" => LogUntouched]_vars

\* Both pumps wrote to the log, the small-output cleanup closed and
\* unlinked it, and Run returned
C25_Witness ==
    /\ Returned
    /\ handle = "closed" /\ closes = 1
    /\ removeErr = "nil"
    /\ OfStream(logContent, "out") # <<>>
    /\ OfStream(logContent, "err") # <<>>

\* C21: a result with WasReduced = true, the only kind for which Run writes
\* the footer, is strictly shorter than the raw stdout it was computed
\* from.
C21_FooterOnlyWhenShorter ==
    (Returned_("Filter") /\ call.out.result.WasReduced)
      => TextLen(call.out.result.Filtered) < TextLen(call.in.raw)

\* ------------------------------------------------------------------------
\* Properties of Filter
\* ------------------------------------------------------------------------

C30_UnreducedIsUnchanged ==
    (Returned_("Filter") /\ ~call.in.panics /\ ~call.out.result.WasReduced)
      => call.out.result.Filtered
           = IF call.in.strategy = "passthrough"
               THEN call.in.raw
               ELSE StripANSIString(call.in.raw)

\* C27: the last line of a reduced git status is "N staged, M unstaged,
\* K untracked", with N, M and K the numbers of tab-prefixed file lines
\* whose nearest header above is "Changes to be committed:", "Changes not
\* staged for commit:" and "Untracked files:"; the file lines, with their
\* status word in its short form, are the tab-prefixed lines of the output,
\* in the order of the input.
C27_GitStatusCounts ==
    LET lines == StripANSIString(call.in.raw)
        out == call.out.result.Filtered
        headers == {"Changes to be committed:",
                    "Changes not staged for commit:", "Untracked files:"}
        IsHeader(i, h) == HasPrefix(lines[i], h)
        HeaderAbove(i) ==
            {j \in 1..(i - 1) : \E h \in headers : IsHeader(j, h)}
        \* the nearest header above line i is h
        Under(i, h) ==
            \E j \in HeaderAbove(i) :
               /\ IsHeader(j, h)
               /\ \A k \in HeaderAbove(i) : k <= j
        IsFile(line) == HasPrefix(line, "\t")
        Count(h) == Cardinality({i \in DOMAIN lines :
                                   IsFile(lines[i]) /\ Under(i, h)})
        files == SelectSeq(lines, IsFile)
        last == IF endsWithNewline(out) THEN Len(out) - 1 ELSE Len(out)
    IN  (/\ Returned_("Filter")
         /\ call.in.strategy = "git-status"
         /\ call.out.result.WasReduced)
          => /\ out[last] = <<ToString(Count("Changes to be committed:")),
                              " staged, ",
                              ToString(Count("Changes not staged for commit:")),
                              " unstaged, ",
                              ToString(Count("Untracked files:")),
                              " untracked">>
             /\ SelectSeq(out, IsFile)
                  = [i \in DOMAIN files |-> ConvertStatus(files[i], 1)]

\* A status with staged files and then untracked files
C27_Witness ==
    /\ Returned_("Filter")
    /\ call.in.strategy = "git-status"
    /\ call.out.result.WasReduced
    /\ \E i \in DOMAIN call.out.result.Filtered :
         call.out.result.Filtered[i] = <<"\t", "M", "   ", "a.go">>
    /\ \E i \in DOMAIN call.out.result.Filtered :
         call.out.result.Filtered[i]
           = <<"1", " staged, ", "0", " unstaged, ", "1", " untracked">>

\* C29: for a git diff of 20 lines or more the header has one entry for
\* every file record of the input, in order (a record is opened by a line
\* "+++ b/PATH", by another "+++ " line when a "--- a/PATH" line gave a
\* name, or by a line of a binary file with a name), and the entry of a
\* file that is not binary counts the lines starting with + and with -
\* between the line that opened it and the next "+++ " line that opens a
\* record, lines of binary files in between or not.
C29_GitDiffCounts ==
    (Returned_("Filter") /\ call.in.strategy = "git-diff")
    => LET lines == StripANSIString(call.in.raw)
           out == call.out.result.Filtered
           Minus(n) == HasPrefix(lines[n], "--- a/") \/ HasPrefix(lines[n], "--- ")
           LastMinus(i) ==
               LET before == {j \in 1..(i - 1) : Minus(j)} IN
               IF before = {} THEN <<>>
               ELSE LET last == CHOOSE m \in before : \A q \in before : q <= m IN
                    IF HasPrefix(lines[last], "--- a/") THEN Tail(lines[last])
                    ELSE <<>>
           Opens(p) == \/ HasPrefix(lines[p], "+++ b/")
                       \/ HasPrefix(lines[p], "+++ ") /\ LastMinus(p) # <<>>
           IsBinary(b) == /\ HasPrefix(lines[b], "Binary files ")
                          /\ binaryFileName(lines[b]) # <<>>
           IsRecord(r) == Opens(r) \/ IsBinary(r)
           records == SelectSeq([i \in 1..Len(lines) |-> i], IsRecord)
           NextOpen(f) ==
               LET later == {j \in (f + 1)..Len(lines) : Opens(j)} IN
               IF later = {} THEN Len(lines) + 1
               ELSE CHOOSE m \in later : \A q \in later : m <= q
           Count(c, sign) ==
               Cardinality({j \in (c + 1)..(NextOpen(c) - 1) :
                              HasPrefix(lines[j], sign)})
           Entry(e) ==
               IF IsBinary(e)
                 THEN <<"  ">> \o binaryFileName(lines[e]) \o <<" (binary)">>
                 ELSE <<"  ">>
                        \o (IF HasPrefix(lines[e], "+++ b/")
                              THEN Tail(lines[e]) ELSE LastMinus(e))
                        \o <<" (+", ToString(Count(e, "+")), " -",
                              ToString(Count(e, "-")), ")">>
       IN  Len(lines) >= 20
           => /\ Len(out) >= Len(records) + 2
              /\ out[1] = <<"Files changed:">>
              /\ \A k \in DOMAIN records : out[1 + k] = Entry(records[k])
              /\ out[Len(records) + 2] = <<>>

\* C28: for go test output above the threshold of a small output, with
\* exit code 0 the output is the package summary lines (the bare FAIL
\* among them) in the order of the input, then "all tests passed (N
\* packages)" with N the number of ok and ? lines; with another exit code
\* it is the lines of the failing blocks, then the orphans, then the
\* summary lines.  A failing block is a RUN line, the plain lines after
\* it and the FAIL line that closes it, with no other RUN, PASS or FAIL
\* line in between; an orphan is a FAIL line or a plain line that is not
\* blank, met when no block is open.
C28_GoTestOutput ==
    (Returned_("Filter") /\ call.in.strategy = "go-test")
    => LET lines == StripANSIString(call.in.raw)
           idx == [i \in 1..Len(lines) |-> i]
           Kind(n) ==
               IF IsPkgSummary(lines[n]) \/ lines[n] = <<"FAIL">> THEN "summary"
               ELSE IF goTestRunRe(lines[n]) THEN "run"
               ELSE IF \/ PrefixThenSpace(lines[n], "=== PAUSE")
                       \/ PrefixThenSpace(lines[n], "=== CONT") THEN "skip"
               ELSE IF PrefixThenSpace(lines[n], "--- PASS:") THEN "pass"
               ELSE IF PrefixThenSpace(lines[n], "--- FAIL:") THEN "fail"
               ELSE "plain"
           \* the RUN line of the block that is open when line p is met, or 0
           Opener(p) ==
               LET marks == {m \in 1..(p - 1) : Kind(m) \in {"run", "pass", "fail"}}
               IN  IF marks = {} THEN 0
                   ELSE LET last == CHOOSE m \in marks : \A q \in marks : q <= m
                        IN  IF Kind(last) = "run" THEN last ELSE 0
           Closes(f) == Kind(f) = "fail" /\ Opener(f) # 0
           InFailingBlock(b) ==
               \E f \in b..Len(lines) :
                  /\ Closes(f)
                  /\ Opener(f) <= b
                  /\ \/ b = Opener(f)
                     \/ b = f
                     \/ Kind(b) = "plain"
           IsOrphan(o) ==
               /\ Opener(o) = 0
               /\ \/ Kind(o) = "fail"
                  \/ Kind(o) = "plain" /\ ~IsBlank(lines[o])
           IsSummary(u) == Kind(u) = "summary"
           LinesAt(sel) == [k \in DOMAIN sel |-> lines[sel[k]]]
           summaries == LinesAt(SelectSeq(idx, IsSummary))
           passed == Cardinality({n \in 1..Len(lines) :
                                    \/ HasPrefix(lines[n], "ok  \t")
                                    \/ HasPrefix(lines[n], "?   \t")})
           expected ==
               IF call.in.exitCode = 0
                 THEN Append(summaries, <<"all tests passed (",
                                          ToString(passed), " packages)">>)
                 ELSE LinesAt(SelectSeq(idx, InFailingBlock))
                        \o LinesAt(SelectSeq(idx, IsOrphan))
                        \o summaries
           small == /\ Cardinality({n \in 1..Len(lines) :
                                      IsPkgSummary(lines[n])}) <= 2
                    /\ Len(lines) < 10
       IN  ~small
           => call.out.result.Filtered
                = ensureTrailingNewline(JoinLines(expected),
                                        endsWithNewline(lines))

\* C28 happens: a failing block, an orphan and the three summaries
C28_Witness ==
    /\ Returned_("Filter")
    /\ call.in.strategy = "go-test"
    /\ call.in.exitCode = 1
    /\ Len(call.out.result.Filtered) >= 7
    /\ SubSeq(call.out.result.Filtered, 1, 7)
         = << <<"=== RUN", "   ", "TestB">>,
              <<"    ", "a_test.go", ":", "10", ":", " ", "got 1">>,
              <<"--- FAIL:", " ", "TestB", " (0.00s)">>,
              <<"    ", "a_test.go", ":", "10", ":", " ", "got 1">>,
              <<"ok  \t", "example.com/a", "\t", "0.01s">>,
              <<"FAIL\t", "example.com/b", "\t", "0.02s">>,
              <<"?   \t", "example.com/c", "\t", "[no test files]">> >>

\* The sets of flags that take a value, of the four commands with
\* subcommands
ValueFlagSets ==
    {gitValueFlags, goValueFlags, cargoValueFlags, dockerValueFlags}

\* C26 as stated: isSubcommand is true exactly when the first argument
\* that is not a flag that takes a value, does not come directly after
\* such a flag and does not start with "-" equals the target, and false
\* when there is no such argument.
C26_IsSubcommandFirstPositional ==
    Returned_("DefaultFind")
    => LET args == call.in.args IN
       \A flags \in ValueFlagSets, target \in ArgTokens(call.in.command) :
          LET Positional(n) ==
                  /\ args[n] \notin flags
                  /\ n > 1 => args[n - 1] \notin flags
                  /\ ~HasDashPrefix(args[n])
              found == {n \in DOMAIN args : Positional(n)}
          IN  isSubcommand(args, target, flags)
                <=> /\ found # {}
                    /\ args[CHOOSE m \in found : \A q \in found : m <= q]
                         = target

\* C26, amended: the argument after a flag that takes a value is skipped
\* only when that flag was not itself skipped as the value of the flag
\* before it.
C26_IsSubcommandSkipsValues ==
    Returned_("DefaultFind")
    => LET args == call.in.args IN
       \A flags \in ValueFlagSets, target \in ArgTokens(call.in.command) :
          LET isValue[n \in DOMAIN args] ==
                  /\ n > 1
                  /\ args[n - 1] \in flags
                  /\ ~isValue[n - 1]
              Positional(n) ==
                  /\ ~isValue[n]
                  /\ args[n] \notin flags
                  /\ ~HasDashPrefix(args[n])
              found == {n \in DOMAIN args : Positional(n)}
          IN  isSubcommand(args, target, flags)
                <=> /\ found # {}
                    /\ args[CHOOSE m \in found : \A q \in found : m <= q]
                         = target

\* git -c -c status: the second -c is the value of the first, and status
\* is the subcommand
C26_Witness ==
    /\ Returned_("DefaultFind")
    /\ call.in.command = "git"
    /\ call.in.args = <<"-c", "-c", "status">>
    /\ call.out = "git-status"

\* The hook on its inputs
HookInit ==
    /\ RunIdle
    /\ call \in Calls("runHook", HookInputs)

HookNext ==
    \/ HookCall
    \/ HookFeedBack

HookSpec == HookInit /\ [][HookNext]_vars

\* C23 as stated: the hook writes the rewrite, "coc " and the command as
\* it was given, exactly when the input is a Bash call whose trimmed
\* command is not empty, has no shell operator and starts with a word that
\* is a supported command other than coc; in every other case it writes
\* nothing; it exits with 0; and the command of a rewrite given to the
\* hook again is not rewritten.
C23_HookRewrites ==
    Returned_("runHook")
    => LET in == call.in
           trimmed == TrimSpace(in.command)
           Operator(n) ==
               \/ trimmed[n] \in {"|", "&&", "||", ";", "$(", Backtick}
               \/ n > 1 /\ trimmed[n - 1] = "&" /\ trimmed[n] = "&"
           spaces == {n \in DOMAIN trimmed : trimmed[n] \in HookWhite}
           word == IF spaces = {} THEN Concat(trimmed)
                   ELSE Concat(SubSeq(trimmed, 1,
                          (CHOOSE m \in spaces : \A q \in spaces : m <= q) - 1))
           wraps == /\ in.read = "ok"
                    /\ in.json = "ok"
                    /\ in.tool_name = "Bash"
                    /\ trimmed # <<>>
                    /\ \A n \in DOMAIN trimmed : ~Operator(n)
                    /\ word # "coc"
                    /\ word \in {"git", "go", "cargo", "docker", "grep", "rg",
                                  "npm", "pip", "pip3", "yarn"}
       IN  /\ call.out.exit = 0
           /\ wraps => /\ call.out.stdout.kind = "rewrite"
                       /\ call.out.stdout.command = <<"coc", " ">> \o in.command
           /\ ~wraps => call.out.stdout = NoOutput
           /\ in.fedBack => call.out.stdout = NoOutput

\* C23, amended: the rewrite is "coc " and the trimmed command, and it is
\* written when stdout takes it; when stdout fails the hook writes nothing
\* or a part of the rewrite.
C23_HookRewritesTrimmed ==
    Returned_("runHook")
    => LET in == call.in
           trimmed == TrimSpace(in.command)
           Operator(n) ==
               \/ trimmed[n] \in {"|", "&&", "||", ";", "$(", Backtick}
               \/ n > 1 /\ trimmed[n - 1] = "&" /\ trimmed[n] = "&"
           spaces == {n \in DOMAIN trimmed : trimmed[n] \in HookWhite}
           word == IF spaces = {} THEN Concat(trimmed)
                   ELSE Concat(SubSeq(trimmed, 1,
                          (CHOOSE m \in spaces : \A q \in spaces : m <= q) - 1))
           wraps == /\ in.read = "ok"
                    /\ in.json = "ok"
                    /\ in.tool_name = "Bash"
                    /\ trimmed # <<>>
                    /\ \A n \in DOMAIN trimmed : ~Operator(n)
                    /\ word # "coc"
                    /\ word \in {"git", "go", "cargo", "docker", "grep", "rg",
                                  "npm", "pip", "pip3", "yarn"}
       IN  /\ call.out.exit = 0
           /\ (wraps /\ in.write = "all")
                => /\ call.out.stdout.kind = "rewrite"
                   /\ call.out.stdout.command = <<"coc", " ">> \o trimmed
           /\ (wraps /\ in.write # "all")
                => call.out.stdout.kind \in {"none", "partial"}
           /\ ~wraps => call.out.stdout = NoOutput
           /\ in.fedBack => call.out.stdout = NoOutput

\* A command with white space around it was rewritten, and the rewrite
\* given to the hook again was left alone
C23_Witness ==
    /\ Returned_("runHook")
    /\ call.in.fedBack
    /\ call.in.command = <<"coc", " ", "git", " ", "status">>
    /\ call.out.stdout = NoOutput

\* init on the settings
SettingsInit ==
    /\ RunIdle
    /\ \E s \in SettingsOver(EntryLists(HookLists)) :
          call = [fn |-> "init", in |-> s,
                  out |-> [settings |-> s, before |-> s, last |-> "none",
                           removed |-> FALSE, ops |-> 0],
                  done |-> FALSE]

SettingsNext ==
    \/ AddHook
    \/ RemoveHook

SettingsSpec == SettingsInit /\ [][SettingsNext]_vars

\* C24: after an add the settings hold exactly one coc hook and after a
\* remove none; an add with the hook present and a remove with it absent
\* leave the settings as they were; remove reports that it removed exactly
\* when the hook was present; the other top-level key, the other key of
\* hooks, the other matcher entries and the other hooks are kept by both.
C24_SettingsAddRemove ==
    (call.fn = "init" /\ call.out.last # "none")
    => LET now == call.out.settings
           before == call.out.before
           present == CocHooks(before) # {}
           Entries(s) == IF s.hooks.kind = "object"
                            /\ s.hooks.PreToolUse.kind = "array"
                           THEN s.hooks.PreToolUse.items ELSE <<>>
           Stripped(e) == IF e.matcher = "Bash"
                            THEN [e EXCEPT !.hooks = SelectSeq(@, IsOtherHook)]
                            ELSE e
           Unrelated(e) ==
               ~(e.matcher = "Bash" /\ e.hooks # <<>>
                   /\ SelectSeq(e.hooks, IsOtherHook) = <<>>)
           Others(s) == LET kept == SelectSeq(Entries(s), Unrelated)
                        IN  [k \in DOMAIN kept |-> Stripped(kept[k])]
           PostToolUse(s) == s.hooks.kind = "object" /\ s.hooks.PostToolUse
       IN  /\ call.out.last = "add"
                => /\ Cardinality(CocHooks(now)) = 1
                   /\ present => now = before
           /\ call.out.last = "remove"
                => /\ CocHooks(now) = {}
                   /\ call.out.removed <=> present
                   /\ ~present => now = before
           /\ now.model = before.model
           /\ PostToolUse(now) = PostToolUse(before)
           /\ Others(now) = Others(before)

====
